---------------------------- MODULE Spec2Model ----------------------------
(***************************************************************************)
(* Control-plane client library of the EJFAT load balancer (lb_cplane).    *)
(* The model covers the session record of a backend (BackEnd), the backend *)
(* session client (LbControlPlaneClient) and the reservation client        *)
(* (LbReservation).  The gRPC transport is an opaque request/reply         *)
(* exchange: every call draws a status and a reply.                        *)
(***************************************************************************)
EXTENDS Integers, Sequences, FiniteSets, TLC

\* Every record below lists its fields in this one order, the order in which
\* the model checker keeps them.
RecordFields ==
    [ ok |-> 0, code |-> 0, msg |-> 0, cpAddr |-> 0,
      kind |-> 0, st |-> 0, seconds |-> 0, nanos |-> 0,
      value |-> 0, ran |-> 0, ipv4 |-> 0, ipv6 |-> 0,
      ipAddr |-> 0, url |-> 0, rpcs |-> 0, resolves |-> 0,
      cout |-> 0, ret |-> 0, cerr |-> 0, op |-> 0,
      who |-> 0, status |-> 0, addrs |-> 0, cpIP |-> 0,
      cpPort |-> 0, beAddr |-> 0, bePort |-> 0, beRange |-> 0,
      token |-> 0, name |-> 0, lbName |-> 0, adminToken |-> 0,
      untilSeconds |-> 0, isReserved |-> 0, instanceToken |-> 0, lbId |-> 0,
      weight |-> 0, sessionId |-> 0, sessionToken |-> 0, ipAddress |-> 0,
      udpPort |-> 0, portRange |-> 0, timestamp |-> 0, fillPercent |-> 0,
      pidError |-> 0, controlSignal |-> 0, isReady |-> 0, syncIpAddress |-> 0,
      syncUdpPort |-> 0, dataIpv4Address |-> 0, dataIpv6Address |-> 0, slotsAssigned |-> 0,
      lastUpdated |-> 0, clientStats |-> 0, until |-> 0, updateTime |-> 0,
      useIPv6 |-> 0, gai |-> 0, time |-> 0, localTime |-> 0,
      isActive |-> 0 ]

VARIABLES
    now,        \* wall clock (CLOCK_REALTIME), whole seconds
    client,     \* the LbControlPlaneClient objects, by instance
    regReply,   \* history: reply of each instance's latest successful Register
    lastUpdate, \* history: arguments of each instance's latest update()
    dereg,      \* history: Deregister has succeeded since that Register
    res,        \* the LbReservation object
    resReply,   \* history: reply of the object's latest successful reservation
    callerStats, \* the map a caller hands to the static LoadBalancerStatus
    backend,    \* the BackEnd session record of the control plane, if one exists
    built,      \* history: the RegisterRequest the record was constructed from
    incoming,   \* history: the SendStateRequest of the latest BackEnd::update
    wire,       \* requests put on the wire by the most recent call
    lastCall,   \* history: the most recent call and the status of its RPC
    lastReply,  \* history: the reply the most recent call received
    args,       \* history: arguments of the most recent static call
    ret,        \* int returned by the most recent call
    uri,        \* string returned by the most recent static URI call
    resolves,   \* number of resolve_host invocations of the most recent call
    cout,       \* lines the most recent call wrote to std::cout
    cerr        \* lines the most recent call wrote to std::cerr

vars == <<now, client, regReply, lastUpdate, dereg, res, resReply, callerStats,
          backend, built, incoming, wire, lastCall, lastReply, args, ret, uri, resolves, cout, cerr>>

-----------------------------------------------------------------------------
(* Bounds *)

MaxTime == 3

-----------------------------------------------------------------------------
(* gRPC status: ok, or an error code with a message *)

StatusOK == [ok |-> TRUE, code |-> 0, msg |-> ""]

Failures ==
    { [ok |-> FALSE, code |-> 14, msg |-> "failed to connect"],
      [ok |-> FALSE, code |-> 5,  msg |-> ""] }

Statuses == {StatusOK} \cup Failures

\* std::cout << status.error_code() << ": " << status.error_message()
ErrorLine(status) == ToString(status.code) \o ": " \o status.msg

-----------------------------------------------------------------------------
(* BackEnd: the session record kept for one registered backend *)

\* google::protobuf::util::TimeUtil::TimestampToMilliseconds
TimestampToMilliseconds(ts) == ts.seconds * 1000 + ts.nanos \div 1000000

\* the constructor; isReady and isActive have no initializer and hold what
\* the memory held, udpPort and portRange are 16-bit members
BackEnd(req, ready0, active0) ==
    [ name          |-> req.name,
      adminToken    |-> req.token,
      instanceToken |-> "",
      lbId          |-> req.lbId,
      weight        |-> req.weight,
      sessionId     |-> "",
      ipAddress     |-> req.ipAddress,
      udpPort       |-> req.udpPort % 65536,
      portRange     |-> req.portRange % 65536,
      timestamp     |-> [seconds |-> 0, nanos |-> 0],
      isReady       |-> ready0,
      time          |-> 0,
      localTime     |-> 0,
      isActive      |-> active0 ]

\* state->has_timestamp(): a message field is present or absent
has_timestamp(state) == Len(state.timestamp) = 1

\* BackEnd::update as it would be if a report also marked the backend active
BackEnd_update_MarksActive(be, state, t) ==
    LET stamped == IF has_timestamp(state)
                   THEN [be EXCEPT !.time = TimestampToMilliseconds(state.timestamp[1]),
                                   !.timestamp = state.timestamp[1]]
                   ELSE be
    IN  [stamped EXCEPT !.localTime = t * 1000,
                        !.sessionId = state.sessionId,
                        !.isActive  = TRUE]

\* BackEnd::update as it would be if the local time were recorded only for
\* a report that carries a timestamp
BackEnd_update_NeedsTimestamp(be, state, t) ==
    LET stamped == IF has_timestamp(state)
                   THEN [be EXCEPT !.time = TimestampToMilliseconds(state.timestamp[1]),
                                   !.timestamp = state.timestamp[1],
                                   !.localTime = t * 1000]
                   ELSE be
    IN  [stamped EXCEPT !.sessionId = state.sessionId]

\* BackEnd::update at local time t (seconds; system_clock in milliseconds)
BackEnd_update(be, state, t) ==
    LET stamped == IF has_timestamp(state)
                   THEN [be EXCEPT !.time = TimestampToMilliseconds(state.timestamp[1]),
                                   !.timestamp = state.timestamp[1]]
                   ELSE be
    IN  [stamped EXCEPT !.localTime = t * 1000,
                        !.sessionId = state.sessionId]

setIsActive(be, active) == [be EXCEPT !.isActive = active]

-----------------------------------------------------------------------------
(* LbControlPlaneClient *)

Clients == {"be1", "be2"}

\* constructor arguments of each instance
Config(c) ==
    [ cpAddr  |-> "10.0.0.9",
      cpPort  |-> 18347,
      beAddr  |-> IF c = "be1" THEN "10.1.0.1" ELSE "10.1.0.2",
      bePort  |-> IF c = "be1" THEN 17750 ELSE 17751,
      beRange |-> 0,
      token   |-> "admintok",
      name    |-> c,
      lbId    |-> IF c = "be1" THEN "lb7" ELSE "lb8",
      weight  |-> 1 ]

Fills     == {0, 75}
PidErrors == {0, 5}

\* what the control plane may answer to Register
RegisterReplies == [token : {"stA", "stB"}, sessionId : {"s1", "s2"}]

EmptyRegisterReply == [token |-> "", sessionId |-> ""]

\* the state after construction as it would be if isReady had no
\* initializer either
NewClients_ReadyUnset ==
    [ sessionId    : {""},
      sessionToken : {""},
      fillPercent  : Fills,
      pidError     : PidErrors,
      isReady      : BOOLEAN ]

\* state after construction; fillPercent and pidError have no initializer
NewClients ==
    [ sessionId    : {""},
      sessionToken : {""},
      fillPercent  : Fills,
      pidError     : PidErrors,
      isReady      : {TRUE} ]

IdleClient ==
    [ sessionId |-> "", sessionToken |-> "", fillPercent |-> 0,
      pidError |-> 0, isReady |-> TRUE ]

update(st, fill, pidErr, ready) ==
    [st EXCEPT !.fillPercent = fill, !.pidError = pidErr, !.isReady = ready]

RegisterRequest(cfg) ==
    [ kind      |-> "Register",
      token     |-> cfg.token,
      name      |-> cfg.name,
      lbId      |-> cfg.lbId,
      weight    |-> cfg.weight,
      ipAddress |-> cfg.beAddr,
      udpPort   |-> cfg.bePort,
      portRange |-> cfg.beRange ]

\* Register as it would be if it kept a session token it already holds
Register_KeepsToken(cfg, st, status, reply) ==
    IF ~status.ok
    THEN [ st   |-> st,
           rpcs |-> <<RegisterRequest(cfg)>>,
           cout |-> <<ErrorLine(status)>>,
           ret  |-> 1 ]
    ELSE [ st   |-> [st EXCEPT !.sessionId    = reply.sessionId,
                               !.sessionToken = IF st.sessionToken = ""
                                                THEN reply.token
                                                ELSE st.sessionToken],
           rpcs |-> <<RegisterRequest(cfg)>>,
           cout |-> <<>>,
           ret  |-> 0 ]

\* Register as it would be if it stored the reply before testing the status
Register_StoresFirst(cfg, st, status, reply) ==
    [ st   |-> [st EXCEPT !.sessionId    = reply.sessionId,
                          !.sessionToken = reply.token],
      rpcs |-> <<RegisterRequest(cfg)>>,
      cout |-> IF status.ok THEN <<>> ELSE <<ErrorLine(status)>>,
      ret  |-> IF status.ok THEN 0 ELSE 1 ]

Register(cfg, st, status, reply) ==
    IF ~status.ok
    THEN [ st   |-> st,
           rpcs |-> <<RegisterRequest(cfg)>>,
           cout |-> <<ErrorLine(status)>>,
           ret  |-> 1 ]
    ELSE [ st   |-> [st EXCEPT !.sessionId    = reply.sessionId,
                               !.sessionToken = reply.token],
           rpcs |-> <<RegisterRequest(cfg)>>,
           cout |-> <<>>,
           ret  |-> 0 ]

DeregisterRequest(cfg, st) ==
    [ kind      |-> "Deregister",
      token     |-> st.sessionToken,
      lbId      |-> cfg.lbId,
      sessionId |-> st.sessionId ]

\* Deregister as it would be if a successful call cleared the session
Deregister_EndsSession(cfg, st, status) ==
    [ st   |-> IF status.ok
               THEN [st EXCEPT !.sessionId = "", !.sessionToken = ""]
               ELSE st,
      rpcs |-> <<DeregisterRequest(cfg, st)>>,
      cout |-> IF status.ok THEN <<>> ELSE <<ErrorLine(status)>>,
      ret  |-> IF status.ok THEN 0 ELSE 1 ]

\* Deregister as it would be if it gave up the session token once sent
Deregister_DropsToken(cfg, st, status) ==
    [ st   |-> [st EXCEPT !.sessionToken = ""],
      rpcs |-> <<DeregisterRequest(cfg, st)>>,
      cout |-> IF status.ok THEN <<>> ELSE <<ErrorLine(status)>>,
      ret  |-> IF status.ok THEN 0 ELSE 1 ]

Deregister(cfg, st, status) ==
    [ st   |-> st,
      rpcs |-> <<DeregisterRequest(cfg, st)>>,
      cout |-> IF status.ok THEN <<>> ELSE <<ErrorLine(status)>>,
      ret  |-> IF status.ok THEN 0 ELSE 1 ]

\* SendStateRequest as it would be if it always reported ready
SendStateRequest_AlwaysReady(cfg, st, t) ==
    [ kind          |-> "SendState",
      token         |-> st.sessionToken,
      lbId          |-> cfg.lbId,
      sessionId     |-> st.sessionId,
      timestamp     |-> [seconds |-> t, nanos |-> 0],
      fillPercent   |-> st.fillPercent,
      controlSignal |-> st.pidError,
      isReady       |-> TRUE ]

\* SendStateRequest as it would be if it sent the token given at construction
SendStateRequest_AdminToken(cfg, st, t) ==
    [ kind          |-> "SendState",
      token         |-> cfg.token,
      lbId          |-> cfg.lbId,
      sessionId     |-> st.sessionId,
      timestamp     |-> [seconds |-> t, nanos |-> 0],
      fillPercent   |-> st.fillPercent,
      controlSignal |-> st.pidError,
      isReady       |-> st.isReady ]

SendStateRequest(cfg, st, t) ==
    [ kind          |-> "SendState",
      token         |-> st.sessionToken,
      lbId          |-> cfg.lbId,
      sessionId     |-> st.sessionId,
      timestamp     |-> [seconds |-> t, nanos |-> 0],
      fillPercent   |-> st.fillPercent,
      controlSignal |-> st.pidError,
      isReady       |-> st.isReady ]

\* SendState as it would be if it sent the request again after a failure
SendState_Retries(cfg, st, t, status) ==
    [ st   |-> st,
      rpcs |-> IF status.ok THEN <<SendStateRequest(cfg, st, t)>>
               ELSE <<SendStateRequest(cfg, st, t), SendStateRequest(cfg, st, t)>>,
      cout |-> IF status.ok THEN <<>> ELSE <<ErrorLine(status)>>,
      ret  |-> IF status.ok THEN 0 ELSE 1 ]

\* SendState as it would be if it refused to run without a session
SendState_Guarded(cfg, st, t, status) ==
    IF st.sessionId = ""
    THEN [ st |-> st, rpcs |-> <<>>, cout |-> <<>>, ret |-> 1 ]
    ELSE [ st   |-> st,
           rpcs |-> <<SendStateRequest(cfg, st, t)>>,
           cout |-> IF status.ok THEN <<>> ELSE <<ErrorLine(status)>>,
           ret  |-> IF status.ok THEN 0 ELSE 1 ]

SendState(cfg, st, t, status) ==
    [ st   |-> st,
      rpcs |-> <<SendStateRequest(cfg, st, t)>>,
      cout |-> IF status.ok THEN <<>> ELSE <<ErrorLine(status)>>,
      ret  |-> IF status.ok THEN 0 ELSE 1 ]

-----------------------------------------------------------------------------
(* LbReservation: the instance methods *)

UINT16 == 65536

\* reserve replies of the control plane; syncUdpPort is a 32-bit field
ReserveReplies ==
    [ token           : {"tok123", "tok9"},
      lbId            : {"lb7", "lb8"},
      syncIpAddress   : {"", "10.0.0.1", "2001:db8:0:0:0:0:0:1"},
      syncUdpPort     : {18000, 83537},
      dataIpv4Address : {"10.0.0.5"},
      dataIpv6Address : {"2001:db8:0:0:0:0:0:5"} ]

\* a default-constructed ReserveLoadBalancerReply
EmptyReserveReply ==
    [ token |-> "", lbId |-> "", syncIpAddress |-> "", syncUdpPort |-> 0,
      dataIpv4Address |-> "", dataIpv6Address |-> "" ]

Untils == 1 .. (MaxTime - 1)

\* what a worker may report: fillPercent, controlSignal, slotsAssigned and
\* the time of the report
Snapshots ==
    { <<10, 3, 128, [seconds |-> 1, nanos |-> 500000000]>>,
      <<80, 4, 256, [seconds |-> 2, nanos |-> 250000000]>> }

\* one entry of a status reply's worker list
Workers ==
    { [ name          |-> n,
        fillPercent   |-> s[1],
        controlSignal |-> s[2],
        slotsAssigned |-> s[3],
        lastUpdated   |-> s[4] ] : n \in {"w1", "w2"}, s \in Snapshots }

MaxWorkers == 2

StatusReplies == UNION { [1..n -> Workers] : n \in 0..MaxWorkers }

\* std::unordered_map<std::string, LbClientStatus>, empty
EmptyStats == [n \in {} |-> 0]

\* state after construction; syncUdpPort has no initializer
NewReservations ==
    [ cpAddr          : {"10.0.0.9"},
      cpPort          : {18347},
      lbName          : {"test"},
      adminToken      : {"admintok"},
      untilSeconds    : Untils,
      isReserved      : {FALSE},
      instanceToken   : {""},
      lbId            : {""},
      syncIpAddress   : {""},
      syncUdpPort     : {0, 4660},
      dataIpv4Address : {""},
      dataIpv6Address : {""},
      clientStats     : {EmptyStats} ]

IdleReservation ==
    [ cpAddr |-> "10.0.0.9", cpPort |-> 18347, lbName |-> "test",
      adminToken |-> "admintok", untilSeconds |-> 1, isReserved |-> FALSE,
      instanceToken |-> "", lbId |-> "", syncIpAddress |-> "",
      syncUdpPort |-> 0, dataIpv4Address |-> "", dataIpv6Address |-> "",
      clientStats |-> EmptyStats ]

ReserveLoadBalancerRequest(adminToken, lbName, untilSeconds) ==
    [ kind  |-> "ReserveLoadBalancer",
      token |-> adminToken,
      name  |-> lbName,
      until |-> [seconds |-> untilSeconds, nanos |-> 0] ]

\* SyncIP as it would be without the substitution
SyncIP_AsReplied(replyAddr, fallback) == replyAddr

\* SyncIP as the comment in the code describes it: a substitution for a
\* blank field only
SyncIP_BlankOnly(replyAddr, fallback) ==
    IF replyAddr = "" THEN fallback ELSE replyAddr

\* the substitution made for a blank syncIpAddress in the reply
SyncIP(replyAddr, fallback) ==
    IF replyAddr = "" \/ Len(replyAddr) < 16 THEN fallback ELSE replyAddr

\* ReserveLoadBalancer as it would be if it stored the reply before testing
\* the status
ReserveLoadBalancer_StoresFirst(r, status, reply) ==
    LET request == ReserveLoadBalancerRequest(r.adminToken, r.lbName, r.untilSeconds)
        stored  == [r EXCEPT !.instanceToken   = reply.token,
                             !.lbId            = reply.lbId,
                             !.syncIpAddress   = SyncIP(reply.syncIpAddress, r.cpAddr),
                             !.syncUdpPort     = reply.syncUdpPort % UINT16,
                             !.dataIpv4Address = reply.dataIpv4Address,
                             !.dataIpv6Address = reply.dataIpv6Address]
    IN  IF ~status.ok
        THEN [ st   |-> stored,
               rpcs |-> <<request>>,
               cout |-> <<ErrorLine(status)>>,
               ret  |-> 1 ]
        ELSE [ st   |-> [stored EXCEPT !.isReserved = TRUE],
               rpcs |-> <<request>>,
               cout |-> <<>>,
               ret  |-> 0 ]

\* ReserveLoadBalancer as it would be if a failed call gave the
\* reservation up
ReserveLoadBalancer_DropsOnFailure(r, status, reply) ==
    LET request == ReserveLoadBalancerRequest(r.adminToken, r.lbName, r.untilSeconds) IN
    IF ~status.ok
    THEN [ st   |-> [r EXCEPT !.isReserved = FALSE],
           rpcs |-> <<request>>,
           cout |-> <<ErrorLine(status)>>,
           ret  |-> 1 ]
    ELSE [ st   |-> [r EXCEPT !.instanceToken   = reply.token,
                              !.lbId            = reply.lbId,
                              !.syncIpAddress   = SyncIP(reply.syncIpAddress, r.cpAddr),
                              !.syncUdpPort     = reply.syncUdpPort % UINT16,
                              !.dataIpv4Address = reply.dataIpv4Address,
                              !.dataIpv6Address = reply.dataIpv6Address,
                              !.isReserved      = TRUE],
           rpcs |-> <<request>>,
           cout |-> <<>>,
           ret  |-> 0 ]

\* ReserveLoadBalancer as it would be if each success moved the expiry
\* instant of the object on
ReserveLoadBalancer_Extends(r, status, reply) ==
    LET request == ReserveLoadBalancerRequest(r.adminToken, r.lbName, r.untilSeconds) IN
    IF ~status.ok
    THEN [ st   |-> r,
           rpcs |-> <<request>>,
           cout |-> <<ErrorLine(status)>>,
           ret  |-> 1 ]
    ELSE [ st   |-> [r EXCEPT !.untilSeconds    = r.untilSeconds + 2,
                              !.instanceToken   = reply.token,
                              !.lbId            = reply.lbId,
                              !.syncIpAddress   = SyncIP(reply.syncIpAddress, r.cpAddr),
                              !.syncUdpPort     = reply.syncUdpPort % UINT16,
                              !.dataIpv4Address = reply.dataIpv4Address,
                              !.dataIpv6Address = reply.dataIpv6Address,
                              !.isReserved      = TRUE],
           rpcs |-> <<request>>,
           cout |-> <<>>,
           ret  |-> 0 ]

\* ReserveLoadBalancer as it would be if it left out the IPv6 data address
ReserveLoadBalancer_NoDataV6(r, status, reply) ==
    LET request == ReserveLoadBalancerRequest(r.adminToken, r.lbName, r.untilSeconds) IN
    IF ~status.ok
    THEN [ st   |-> r,
           rpcs |-> <<request>>,
           cout |-> <<ErrorLine(status)>>,
           ret  |-> 1 ]
    ELSE [ st   |-> [r EXCEPT !.instanceToken   = reply.token,
                              !.lbId            = reply.lbId,
                              !.syncIpAddress   = SyncIP(reply.syncIpAddress, r.cpAddr),
                              !.syncUdpPort     = reply.syncUdpPort % UINT16,
                              !.dataIpv4Address = reply.dataIpv4Address,
                              !.isReserved      = TRUE],
           rpcs |-> <<request>>,
           cout |-> <<>>,
           ret  |-> 0 ]

ReserveLoadBalancer(r, status, reply) ==
    LET request == ReserveLoadBalancerRequest(r.adminToken, r.lbName, r.untilSeconds) IN
    IF ~status.ok
    THEN [ st   |-> r,
           rpcs |-> <<request>>,
           cout |-> <<ErrorLine(status)>>,
           ret  |-> 1 ]
    ELSE [ st   |-> [r EXCEPT !.instanceToken   = reply.token,
                              !.lbId            = reply.lbId,
                              !.syncIpAddress   = SyncIP(reply.syncIpAddress, r.cpAddr),
                              !.syncUdpPort     = reply.syncUdpPort % UINT16,
                              !.dataIpv4Address = reply.dataIpv4Address,
                              !.dataIpv6Address = reply.dataIpv6Address,
                              !.isReserved      = TRUE],
           rpcs |-> <<request>>,
           cout |-> <<>>,
           ret  |-> 0 ]

FreeLoadBalancerRequest(adminToken, lbId) ==
    [kind |-> "FreeLoadBalancer", token |-> adminToken, lbId |-> lbId]

\* FreeLoadBalancer as it would be if a successful free dropped the flag
FreeLoadBalancer_Releases(r, status) ==
    [ st   |-> IF status.ok THEN [r EXCEPT !.isReserved = FALSE] ELSE r,
      rpcs |-> <<FreeLoadBalancerRequest(r.adminToken, r.lbId)>>,
      cout |-> IF status.ok THEN <<>> ELSE <<ErrorLine(status)>>,
      ret  |-> IF status.ok THEN 0 ELSE 1 ]

\* FreeLoadBalancer as it would be if it turned away, without an RPC, an
\* object whose reserved flag is not set
FreeLoadBalancer_IfReserved(r, status) ==
    IF ~r.isReserved
    THEN [st |-> r, rpcs |-> <<>>, cout |-> <<>>, ret |-> 1]
    ELSE [ st   |-> r,
           rpcs |-> <<FreeLoadBalancerRequest(r.adminToken, r.lbId)>>,
           cout |-> IF status.ok THEN <<>> ELSE <<ErrorLine(status)>>,
           ret  |-> IF status.ok THEN 0 ELSE 1 ]

FreeLoadBalancer(r, status) ==
    [ st   |-> r,
      rpcs |-> <<FreeLoadBalancerRequest(r.adminToken, r.lbId)>>,
      cout |-> IF status.ok THEN <<>> ELSE <<ErrorLine(status)>>,
      ret  |-> IF status.ok THEN 0 ELSE 1 ]

LbClientStatus(w) ==
    [ fillPercent   |-> w.fillPercent,
      controlSignal |-> w.controlSignal,
      slotsAssigned |-> w.slotsAssigned,
      lastUpdated   |-> w.lastUpdated,
      updateTime    |-> TimestampToMilliseconds(w.lastUpdated) ]

\* a default-constructed LbClientStatus, as clientStats[name] creates it
NewClientStatus ==
    [ fillPercent |-> 0, controlSignal |-> 0, slotsAssigned |-> 0,
      lastUpdated |-> [seconds |-> 0, nanos |-> 0], updateTime |-> 0 ]

\* the loop as it would be with clientStats.insert, which keeps an entry
\* that exists
RECURSIVE StoreWorkers_InsertOnly(_, _, _)
StoreWorkers_InsertOnly(stats, workers, j) ==
    IF j > Len(workers) THEN stats
    ELSE StoreWorkers_InsertOnly(
             stats @@ (workers[j].name :> LbClientStatus(workers[j])),
             workers, j + 1)

\* the loop as it would be if updateTime were computed before lastUpdated
\* is assigned
RECURSIVE StoreWorkers_StaleTime(_, _, _)
StoreWorkers_StaleTime(stats, workers, j) ==
    IF j > Len(workers) THEN stats
    ELSE LET name == workers[j].name
             old  == IF name \in DOMAIN stats THEN stats[name] ELSE NewClientStatus
             new  == [LbClientStatus(workers[j]) EXCEPT
                         !.updateTime = TimestampToMilliseconds(old.lastUpdated)]
         IN  StoreWorkers_StaleTime((name :> new) @@ stats, workers, j + 1)

\* the loop over reply.workers(j), from index j on
RECURSIVE StoreWorkers(_, _, _)
StoreWorkers(stats, workers, j) ==
    IF j > Len(workers) THEN stats
    ELSE StoreWorkers((workers[j].name :> LbClientStatus(workers[j])) @@ stats,
                      workers, j + 1)

LoadBalancerStatusRequest(adminToken, lbId) ==
    [kind |-> "LoadBalancerStatus", token |-> adminToken, lbId |-> lbId]

\* LoadBalancerStatus as it would be if it cleared the map before the loop
LoadBalancerStatus_Replaces(r, status, reply) ==
    LET request == LoadBalancerStatusRequest(r.adminToken, r.lbId) IN
    IF ~status.ok
    THEN [ st   |-> r,
           rpcs |-> <<request>>,
           cout |-> <<ErrorLine(status)>>,
           ret  |-> 1 ]
    ELSE [ st   |-> [r EXCEPT !.clientStats = StoreWorkers(EmptyStats, reply, 1)],
           rpcs |-> <<request>>,
           cout |-> <<>>,
           ret  |-> 0 ]

LoadBalancerStatus(r, status, reply) ==
    LET request == LoadBalancerStatusRequest(r.adminToken, r.lbId) IN
    IF ~status.ok
    THEN [ st   |-> r,
           rpcs |-> <<request>>,
           cout |-> <<ErrorLine(status)>>,
           ret  |-> 1 ]
    ELSE [ st   |-> [r EXCEPT !.clientStats = StoreWorkers(r.clientStats, reply, 1)],
           rpcs |-> <<request>>,
           cout |-> <<>>,
           ret  |-> 0 ]

\* reservationElapsed as it would be if it looked at the reserved flag too
reservationElapsed_WhenReserved(r, t) == r.isReserved /\ t > r.untilSeconds

\* reservationElapsed as it would be if the expiry second itself counted as
\* elapsed
reservationElapsed_AtExpiry(r, t) == t >= r.untilSeconds

reservationElapsed(r, t) == t > r.untilSeconds

\* reserved as it would be if it returned the stored flag alone
reserved_FlagOnly(r, t) == r.isReserved

reserved(r, t) == r.isReserved /\ ~reservationElapsed(r, t)

\* a call of the accessor reserved(): its value and the RPCs it issues
reservedCall(r, t) == [value |-> reserved(r, t), rpcs |-> <<>>]

\* a call of reservationElapsed(): its value and the RPCs it issues
reservationElapsedCall(r, t) == [value |-> reservationElapsed(r, t), rpcs |-> <<>>]

-----------------------------------------------------------------------------
(* Address literals and host resolution *)

Char(s, i) == SubSeq(s, i, i)

Digits == {"0", "1", "2", "3", "4", "5", "6", "7", "8", "9"}

HexDigits ==
    Digits \cup {"a", "b", "c", "d", "e", "f", "A", "B", "C", "D", "E", "F"}

\* the fields of s between occurrences of sep, scanning from i with the
\* current field starting at start
RECURSIVE Fields(_, _, _, _)
Fields(s, sep, i, start) ==
    IF i > Len(s) THEN <<SubSeq(s, start, Len(s))>>
    ELSE IF Char(s, i) = sep
         THEN <<SubSeq(s, start, i - 1)>> \o Fields(s, sep, i + 1, i + 1)
         ELSE Fields(s, sep, i + 1, start)

\* 25[0-5] | 2[0-4][0-9] | [01]?[0-9][0-9]?
IsOctet(p) ==
    /\ Len(p) \in 1..3
    /\ \A i \in 1..Len(p) : Char(p, i) \in Digits
    /\ Len(p) = 3 =>
          \/ Char(p, 1) \in {"0", "1"}
          \/ Char(p, 1) = "2" /\ Char(p, 2) \in {"0", "1", "2", "3", "4"}
          \/ Char(p, 1) = "2" /\ Char(p, 2) = "5"
                /\ Char(p, 3) \in {"0", "1", "2", "3", "4", "5"}

\* [0-9a-fA-F]{1,4}
IsHexGroup(p) ==
    /\ Len(p) \in 1..4
    /\ \A i \in 1..Len(p) : Char(p, i) \in HexDigits

is_ipv4(str) ==
    LET f == Fields(str, ".", 1, 1) IN
    Len(f) = 4 /\ \A k \in 1..4 : IsOctet(f[k])

is_ipv6(str) ==
    LET f == Fields(str, ":", 1, 1) IN
    Len(f) = 8 /\ \A k \in 1..8 : IsHexGroup(f[k])

\* what getaddrinfo may answer: an error, or a list of addresses, each
\* already in the text form inet_ntop gives it; inet_ntop writes a run of
\* zero groups of an IPv6 address as "::"
ResolvedAddrs ==
    {"192.168.1.7", "192.168.1.8", "2001:db8:1:2:3:4:5:7", "2001:db8::7"}

MaxAddrs == 2

\* no answer: getaddrinfo was not called
NoGai == [status |-> 0, addrs |-> <<>>]

GaiAnswers ==
    {[status |-> -2, addrs |-> <<>>]}
        \cup { [status |-> 0, addrs |-> a] :
                  a \in UNION { [1..n -> ResolvedAddrs] : n \in 0..MaxAddrs } }

\* the loop over the addrinfo list, from entry j on
RECURSIVE ScanAddrs(_, _, _, _)
ScanAddrs(addrs, j, ipv4, ipv6) ==
    IF j > Len(addrs) THEN [ipv4 |-> ipv4, ipv6 |-> ipv6]
    ELSE ScanAddrs(addrs, j + 1,
                   IF is_ipv4(addrs[j]) THEN addrs[j] ELSE ipv4,
                   IF is_ipv6(addrs[j]) THEN addrs[j] ELSE ipv6)

\* gai_strerror, for the one error the model lets getaddrinfo give (EAI_NONAME)
gai_strerror(status) ==
    IF status = -2 THEN "Name or service not known" ELSE "Unknown error"

resolve_host(host_name, gai) ==
    IF gai.status # 0
    THEN [ ran |-> FALSE, ipv4 |-> "", ipv6 |-> "",
           cerr |-> <<"resolveHost: getaddrinfo error: "
                        \o gai_strerror(gai.status)>> ]
    ELSE LET found == ScanAddrs(gai.addrs, 1, "", "") IN
         [ ran |-> TRUE, ipv4 |-> found.ipv4, ipv6 |-> found.ipv6,
           cerr |-> <<>> ]

-----------------------------------------------------------------------------
(* LbReservation: the static methods *)

DataPort == 19522

\* UriHost as it would be if it resolved every cpIP, literal or not
UriHost_AlwaysResolves(cpIP, useIPv6, gai) ==
    LET h == resolve_host(cpIP, gai) IN
    [ ipAddr   |-> IF useIPv6 /\ h.ipv6 # "" THEN h.ipv6
                   ELSE IF h.ipv4 # "" THEN h.ipv4
                   ELSE cpIP,
      resolves |-> 1,
      cerr     |-> h.cerr ]

\* UriHost as it would be if a request for IPv6 never fell back to IPv4
UriHost_NoFallback(cpIP, useIPv6, gai) ==
    IF is_ipv4(cpIP) \/ is_ipv6(cpIP)
    THEN [ipAddr |-> cpIP, resolves |-> 0, cerr |-> <<>>]
    ELSE LET h == resolve_host(cpIP, gai) IN
         [ ipAddr   |-> IF useIPv6
                        THEN (IF h.ipv6 # "" THEN h.ipv6 ELSE cpIP)
                        ELSE (IF h.ipv4 # "" THEN h.ipv4 ELSE cpIP),
           resolves |-> 1,
           cerr     |-> h.cerr ]

\* the host of the URI: cpIP itself when a literal, else a resolved address
UriHost(cpIP, useIPv6, gai) ==
    IF is_ipv4(cpIP) \/ is_ipv6(cpIP)
    THEN [ipAddr |-> cpIP, resolves |-> 0, cerr |-> <<>>]
    ELSE LET h == resolve_host(cpIP, gai) IN
         [ ipAddr   |-> IF useIPv6 /\ h.ipv6 # "" THEN h.ipv6
                        ELSE IF h.ipv4 # "" THEN h.ipv4
                        ELSE cpIP,
           resolves |-> 1,
           cerr     |-> h.cerr ]

\* UriTail as it would be if it named the IPv4 data address in both cases
UriTail_DataV4(ipAddr, cpPort, useIPv6, reply) ==
    ipAddr \o ":" \o ToString(cpPort) \o "/lb/" \o reply.lbId
        \o "?data=" \o reply.dataIpv4Address
        \o ":" \o ToString(DataPort)
        \o "&sync=" \o SyncIP(reply.syncIpAddress, ipAddr)
        \o ":" \o ToString(reply.syncUdpPort)

\* "...%s:%hu/lb/%s?data=%s:%d&sync=%s:%d"
UriTail(ipAddr, cpPort, useIPv6, reply) ==
    ipAddr \o ":" \o ToString(cpPort) \o "/lb/" \o reply.lbId
        \o "?data="
        \o (IF useIPv6 THEN reply.dataIpv6Address ELSE reply.dataIpv4Address)
        \o ":" \o ToString(DataPort)
        \o "&sync=" \o SyncIP(reply.syncIpAddress, ipAddr)
        \o ":" \o ToString(reply.syncUdpPort)

\* the static ReserveLoadBalancer as it would be if it printed a failed
\* status the way the instance methods do
ReserveLoadBalancerStatic_Prints(cpIP, cpPort, lbName, adminToken, untilSeconds, useIPv6, status, reply, gai) ==
    LET h == UriHost(cpIP, useIPv6, gai) IN
    [ url  |-> IF ~status.ok
               THEN "error = " \o status.msg
               ELSE "ejfat://" \o reply.token \o "@"
                        \o UriTail(h.ipAddr, cpPort, useIPv6, reply),
      rpcs |-> <<ReserveLoadBalancerRequest(adminToken, lbName, untilSeconds)>>,
      resolves |-> h.resolves,
      cout |-> IF status.ok THEN <<>> ELSE <<ErrorLine(status)>>,
      cerr |-> h.cerr ]

ReserveLoadBalancerStatic(cpIP, cpPort, lbName, adminToken, untilSeconds, useIPv6, status, reply, gai) ==
    LET h == UriHost(cpIP, useIPv6, gai) IN
    [ url  |-> IF ~status.ok
               THEN "error = " \o status.msg
               ELSE "ejfat://" \o reply.token \o "@"
                        \o UriTail(h.ipAddr, cpPort, useIPv6, reply),
      rpcs |-> <<ReserveLoadBalancerRequest(adminToken, lbName, untilSeconds)>>,
      resolves |-> h.resolves,
      cout |-> <<>>,
      cerr |-> h.cerr ]

\* the static FreeLoadBalancer as it would be if it printed a failure and
\* still returned 0
FreeLoadBalancerStatic_ReturnsZero(cpIP, cpPort, lbId, adminToken, status) ==
    [ rpcs |-> <<FreeLoadBalancerRequest(adminToken, lbId)>>,
      cout |-> IF status.ok THEN <<>> ELSE <<ErrorLine(status)>>,
      ret  |-> 0 ]

FreeLoadBalancerStatic(cpIP, cpPort, lbId, adminToken, status) ==
    [ rpcs |-> <<FreeLoadBalancerRequest(adminToken, lbId)>>,
      cout |-> IF status.ok THEN <<>> ELSE <<ErrorLine(status)>>,
      ret  |-> IF status.ok THEN 0 ELSE 1 ]

\* the static LoadBalancerStatus as it would be if it emptied the caller's
\* map before the call
LoadBalancerStatusStatic_ClearsFirst(cpIP, cpPort, lbId, adminToken, clientStats, status, reply) ==
    LET request == LoadBalancerStatusRequest(adminToken, lbId) IN
    IF ~status.ok
    THEN [ st   |-> EmptyStats,
           rpcs |-> <<request>>,
           cout |-> <<ErrorLine(status)>>,
           ret  |-> 1 ]
    ELSE [ st   |-> StoreWorkers(EmptyStats, reply, 1),
           rpcs |-> <<request>>,
           cout |-> <<>>,
           ret  |-> 0 ]

LoadBalancerStatusStatic(cpIP, cpPort, lbId, adminToken, clientStats, status, reply) ==
    LET request == LoadBalancerStatusRequest(adminToken, lbId) IN
    IF ~status.ok
    THEN [ st   |-> clientStats,
           rpcs |-> <<request>>,
           cout |-> <<ErrorLine(status)>>,
           ret  |-> 1 ]
    ELSE [ st   |-> StoreWorkers(clientStats, reply, 1),
           rpcs |-> <<request>>,
           cout |-> <<>>,
           ret  |-> 0 ]

GetLoadBalancerRequest(adminToken, lbId) ==
    [kind |-> "GetLoadBalancer", token |-> adminToken, lbId |-> lbId]

\* GetLbUri as it would be if it built the URI of the static
\* ReserveLoadBalancer, token included
GetLbUri_WithToken(cpIP, cpPort, lbId, adminToken, useIPv6, status, reply, gai) ==
    LET h == UriHost(cpIP, useIPv6, gai) IN
    [ url  |-> IF ~status.ok
               THEN "error = " \o status.msg
               ELSE "ejfat://" \o reply.token \o "@"
                        \o UriTail(h.ipAddr, cpPort, useIPv6, reply),
      rpcs |-> <<GetLoadBalancerRequest(adminToken, lbId)>>,
      resolves |-> h.resolves,
      cout |-> <<>>,
      cerr |-> h.cerr ]

GetLbUri(cpIP, cpPort, lbId, adminToken, useIPv6, status, reply, gai) ==
    LET h == UriHost(cpIP, useIPv6, gai) IN
    [ url  |-> IF ~status.ok
               THEN "error = " \o status.msg
               ELSE "ejfat://" \o UriTail(h.ipAddr, cpPort, useIPv6, reply),
      rpcs |-> <<GetLoadBalancerRequest(adminToken, lbId)>>,
      resolves |-> h.resolves,
      cout |-> <<>>,
      cerr |-> h.cerr ]

-----------------------------------------------------------------------------
(* Actions of the backend session client *)

NoCall == [op |-> "none", who |-> "", status |-> StatusOK]

clientVars == <<client, regReply, lastUpdate, dereg>>
backendVars == <<backend, built, incoming>>
resVars    == <<res, resReply>>
callVars   == <<wire, lastCall, lastReply, args, ret, uri, resolves, cout, cerr>>

Tick ==
    /\ now < MaxTime
    /\ now' = now + 1
    /\ UNCHANGED <<backendVars, clientVars, resVars, callerStats, callVars>>

DoUpdate(c) ==
    \E fill \in Fills, pidErr \in PidErrors, ready \in BOOLEAN :
        /\ client' = [client EXCEPT ![c] = update(client[c], fill, pidErr, ready)]
        /\ lastUpdate' = [lastUpdate EXCEPT ![c] =
                             <<[ fillPercent |-> fill, pidError |-> pidErr,
                                 isReady |-> ready ]>>]
        /\ lastCall' = [op |-> "update", who |-> c, status |-> StatusOK]
        /\ lastReply' = <<>>
        /\ wire' = <<>>
        /\ cout' = <<>>
        /\ cerr' = <<>>
        /\ UNCHANGED <<now, backendVars, callerStats, regReply, dereg, resVars, args, ret, uri, resolves>>

\* Register as it would be if the session members were static, shared by
\* every instance of the class
DoRegister_SharedSession(c) ==
    \E status \in Statuses :
    \E reply \in IF status.ok THEN RegisterReplies ELSE {EmptyRegisterReply} :
        \E r \in {Register(Config(c), client[c], status, reply)} :
        /\ client' = [d \in DOMAIN client |->
                         IF status.ok
                         THEN [client[d] EXCEPT !.sessionId    = reply.sessionId,
                                                !.sessionToken = reply.token]
                         ELSE client[d]]
        /\ regReply' = IF status.ok THEN [regReply EXCEPT ![c] = <<reply>>]
                                    ELSE regReply
        /\ dereg' = IF status.ok THEN [dereg EXCEPT ![c] = FALSE] ELSE dereg
        /\ lastCall' = [op |-> "Register", who |-> c, status |-> status]
        /\ lastReply' = <<reply>>
        /\ wire' = r.rpcs
        /\ ret' = r.ret
        /\ cout' = r.cout
        /\ cerr' = <<>>
        /\ UNCHANGED <<now, backendVars, callerStats, lastUpdate, resVars, args, uri, resolves>>

DoRegister(c) ==
    \E status \in Statuses :
    \E reply \in IF status.ok THEN RegisterReplies ELSE {EmptyRegisterReply} :
        \E r \in {Register(Config(c), client[c], status, reply)} :
        /\ client' = [client EXCEPT ![c] = r.st]
        /\ regReply' = IF status.ok THEN [regReply EXCEPT ![c] = <<reply>>]
                                    ELSE regReply
        /\ dereg' = IF status.ok THEN [dereg EXCEPT ![c] = FALSE] ELSE dereg
        /\ lastCall' = [op |-> "Register", who |-> c, status |-> status]
        /\ lastReply' = <<reply>>
        /\ wire' = r.rpcs
        /\ ret' = r.ret
        /\ cout' = r.cout
        /\ cerr' = <<>>
        /\ UNCHANGED <<now, backendVars, callerStats, lastUpdate, resVars, args, uri, resolves>>

DoDeregister(c) ==
    \E status \in Statuses :
        \E r \in {Deregister(Config(c), client[c], status)} :
        /\ client' = [client EXCEPT ![c] = r.st]
        /\ dereg' = IF status.ok THEN [dereg EXCEPT ![c] = TRUE] ELSE dereg
        /\ lastCall' = [op |-> "Deregister", who |-> c, status |-> status]
        /\ lastReply' = <<>>
        /\ wire' = r.rpcs
        /\ ret' = r.ret
        /\ cout' = r.cout
        /\ cerr' = <<>>
        /\ UNCHANGED <<now, backendVars, callerStats, regReply, lastUpdate, resVars, args, uri, resolves>>

DoSendState(c) ==
    \E status \in Statuses :
        \E r \in {SendState(Config(c), client[c], now, status)} :
        /\ client' = [client EXCEPT ![c] = r.st]
        /\ lastCall' = [op |-> "SendState", who |-> c, status |-> status]
        /\ lastReply' = <<>>
        /\ wire' = r.rpcs
        /\ ret' = r.ret
        /\ cout' = r.cout
        /\ cerr' = <<>>
        /\ UNCHANGED <<now, backendVars, callerStats, regReply, lastUpdate, dereg, resVars, args, uri, resolves>>

-----------------------------------------------------------------------------
(* Actions of the reservation client *)

DoReserve ==
    \E status \in Statuses :
    \E reply \in IF status.ok THEN ReserveReplies ELSE {EmptyReserveReply} :
        \E r \in {ReserveLoadBalancer(res, status, reply)} :
        /\ res' = r.st
        /\ resReply' = IF status.ok THEN <<reply>> ELSE resReply
        /\ lastCall' = [op |-> "ReserveLoadBalancer", who |-> "res", status |-> status]
        /\ lastReply' = <<reply>>
        /\ wire' = r.rpcs
        /\ ret' = r.ret
        /\ cout' = r.cout
        /\ cerr' = <<>>
        /\ UNCHANGED <<now, backendVars, callerStats, clientVars, args, uri, resolves>>

DoFree ==
    \E status \in Statuses :
        \E r \in {FreeLoadBalancer(res, status)} :
        /\ res' = r.st
        /\ lastCall' = [op |-> "FreeLoadBalancer", who |-> "res", status |-> status]
        /\ lastReply' = <<>>
        /\ wire' = r.rpcs
        /\ ret' = r.ret
        /\ cout' = r.cout
        /\ cerr' = <<>>
        /\ UNCHANGED <<now, backendVars, callerStats, clientVars, resReply, args, uri, resolves>>

DoStatus ==
    \E status \in Statuses :
    \E reply \in IF status.ok THEN StatusReplies ELSE {<<>>} :
        \E r \in {LoadBalancerStatus(res, status, reply)} :
        /\ res' = r.st
        /\ lastCall' = [op |-> "LoadBalancerStatus", who |-> "res", status |-> status]
        /\ lastReply' = <<reply>>
        /\ wire' = r.rpcs
        /\ ret' = r.ret
        /\ cout' = r.cout
        /\ cerr' = <<>>
        /\ UNCHANGED <<now, backendVars, callerStats, clientVars, resReply, args, uri, resolves>>

\* the caller reads reserved(); a C++ bool, recorded as 0 or 1
DoReserved ==
    \E r \in {reservedCall(res, now)} :
    /\ lastCall' = [op |-> "reserved", who |-> "res", status |-> StatusOK]
    /\ lastReply' = <<>>
    /\ wire' = r.rpcs
    /\ ret' = IF r.value THEN 1 ELSE 0
    /\ cout' = <<>>
    /\ cerr' = <<>>
    /\ UNCHANGED <<now, backendVars, callerStats, clientVars, resVars, args, uri, resolves>>

\* getSyncPort as it would be if it returned the data port
getSyncPort_DataPort(r) == DataPort

\* uint16_t getSyncPort() const {return syncUdpPort;}
getSyncPort(r) == r.syncUdpPort

\* the caller reads getSyncPort()
DoGetSyncPort ==
    /\ ret' = getSyncPort(res)
    /\ lastCall' = [op |-> "getSyncPort", who |-> "res", status |-> StatusOK]
    /\ wire' = <<>>
    /\ cout' = <<>>
    /\ cerr' = <<>>
    /\ UNCHANGED <<now, backendVars, callerStats, clientVars, resVars, lastReply, args, uri, resolves>>

\* the caller reads reservationElapsed(); a C++ bool, recorded as 0 or 1
DoReservationElapsed ==
    \E r \in {reservationElapsedCall(res, now)} :
    /\ lastCall' = [op |-> "reservationElapsed", who |-> "res", status |-> StatusOK]
    /\ lastReply' = <<>>
    /\ wire' = r.rpcs
    /\ ret' = IF r.value THEN 1 ELSE 0
    /\ cout' = <<>>
    /\ cerr' = <<>>
    /\ UNCHANGED <<now, backendVars, callerStats, clientVars, resVars, args, uri, resolves>>

-----------------------------------------------------------------------------
(* Actions of the one-shot static methods *)

\* control-plane addresses a caller may pass: two literals and a host name
CpAddrs == {"10.0.0.9", "2001:db8:0:0:0:0:0:9", "lb.example.org"}

StaticReplies == {r \in ReserveReplies : r.token = "tok123" /\ r.lbId = "lb7"}

\* getaddrinfo is consulted only for a cpIP that resolve_host is called on
GaiFor(cpIP, useIPv6) ==
    IF UriHost(cpIP, useIPv6, NoGai).resolves = 0 THEN {NoGai} ELSE GaiAnswers

\* char url[256]
UrlSize == 256

\* what glibc writes to stderr when it ends a process whose stack was overrun
StackSmash == "*** stack smashing detected ***: terminated"

\* sprintf(url, ...) followed by std::string(url): a text of fewer than
\* UrlSize characters is returned as formatted; a longer one is written past
\* the end of url, after which the call either returns the text or the
\* process is ended by the stack protector
sprintf_url(text) ==
    IF Len(text) + 1 <= UrlSize
    THEN {[url |-> text, cerr |-> <<>>]}
    ELSE {[url |-> text, cerr |-> <<>>], [url |-> "", cerr |-> <<StackSmash>>]}

DoReserveStaticWith(replies, statuses) ==
    \E cpIP \in CpAddrs, useIPv6 \in BOOLEAN, status \in statuses :
    \E reply \in IF status.ok THEN replies ELSE {EmptyReserveReply} :
    \E gai \in GaiFor(cpIP, useIPv6) :
        \E r \in {ReserveLoadBalancerStatic(cpIP, 18347, "test", "admintok",
                                           MaxTime, useIPv6, status, reply, gai)} :
        \E o \in sprintf_url(r.url) :
        /\ args' = [cpIP |-> cpIP, cpPort |-> 18347, useIPv6 |-> useIPv6, gai |-> gai]
        /\ lastCall' = [op |-> "ReserveLoadBalancerStatic", who |-> "", status |-> status]
        /\ lastReply' = <<reply>>
        /\ wire' = r.rpcs
        /\ uri' = o.url
        /\ resolves' = r.resolves
        /\ cout' = r.cout
        /\ cerr' = r.cerr \o o.cerr
        /\ UNCHANGED <<now, backendVars, callerStats, clientVars, resVars, ret>>

DoReserveStatic == DoReserveStaticWith(StaticReplies, Statuses)

DoGetLbUriWith(replies, statuses) ==
    \E cpIP \in CpAddrs, useIPv6 \in BOOLEAN, status \in statuses :
    \E reply \in IF status.ok THEN replies ELSE {EmptyReserveReply} :
    \E gai \in GaiFor(cpIP, useIPv6) :
        \E r \in {GetLbUri(cpIP, 18347, "lb7", "admintok", useIPv6, status, reply, gai)} :
        \E o \in sprintf_url(r.url) :
        /\ args' = [cpIP |-> cpIP, cpPort |-> 18347, useIPv6 |-> useIPv6, gai |-> gai]
        /\ lastCall' = [op |-> "GetLbUri", who |-> "", status |-> status]
        /\ lastReply' = <<reply>>
        /\ wire' = r.rpcs
        /\ uri' = o.url
        /\ resolves' = r.resolves
        /\ cout' = r.cout
        /\ cerr' = r.cerr \o o.cerr
        /\ UNCHANGED <<now, backendVars, callerStats, clientVars, resVars, ret>>

DoGetLbUri == DoGetLbUriWith(StaticReplies, Statuses)

RECURSIVE Repeat(_, _)
Repeat(c, n) ==
    IF n = 0 THEN ""
    ELSE LET half == Repeat(c, n \div 2)
         IN  half \o half \o (IF n % 2 = 1 THEN c ELSE "")

\* replies of a control plane whose load balancer id is short, or as long as
\* the buffer
LongReplies ==
    { [ token |-> "tok123", lbId |-> id,
        syncIpAddress |-> "2001:db8:0:0:0:0:0:1",
        syncUdpPort |-> 18000,
        dataIpv4Address |-> "10.0.0.5",
        dataIpv6Address |-> "2001:db8:0:0:0:0:0:5" ] : id \in {"lb7", Repeat("l", UrlSize)} }

\* failures whose message, after "error = ", ends on the last byte of the
\* buffer, or one byte past it
LongStatuses ==
    {StatusOK} \cup
    { [ok |-> FALSE, code |-> 14, msg |-> Repeat("e", n)] :
          n \in {UrlSize - 9, UrlSize - 8} }

DoReserveStaticLong == DoReserveStaticWith(LongReplies, LongStatuses)

DoGetLbUriLong == DoGetLbUriWith(LongReplies, LongStatuses)

DoFreeStatic ==
    \E cpIP \in CpAddrs, status \in Statuses :
        \E r \in {FreeLoadBalancerStatic(cpIP, 18347, "lb7", "admintok", status)} :
        /\ lastCall' = [op |-> "FreeLoadBalancerStatic", who |-> "", status |-> status]
        /\ lastReply' = <<>>
        /\ wire' = r.rpcs
        /\ ret' = r.ret
        /\ cout' = r.cout
        /\ cerr' = <<>>
        /\ UNCHANGED <<now, backendVars, callerStats, clientVars, resVars, args, uri, resolves>>

DoStatusStatic ==
    \E cpIP \in CpAddrs, status \in Statuses :
    \E reply \in IF status.ok THEN StatusReplies ELSE {<<>>} :
        \E r \in {LoadBalancerStatusStatic(cpIP, 18347, "lb7", "admintok",
                                          callerStats, status, reply)} :
        /\ callerStats' = r.st
        /\ lastCall' = [op |-> "LoadBalancerStatusStatic", who |-> "", status |-> status]
        /\ lastReply' = <<reply>>
        /\ wire' = r.rpcs
        /\ ret' = r.ret
        /\ cout' = r.cout
        /\ cerr' = <<>>
        /\ UNCHANGED <<now, backendVars, clientVars, resVars, args, uri, resolves>>

NoArgs == [cpIP |-> "", cpPort |-> 0, useIPv6 |-> FALSE, gai |-> NoGai]

InitCalls ==
    /\ now = 0
    /\ wire = <<>>
    /\ lastCall = NoCall
    /\ lastReply = <<>>
    /\ args = NoArgs
    /\ ret = 0
    /\ uri = ""
    /\ resolves = 0
    /\ cout = <<>>
    /\ cerr = <<>>

\* no session record has been constructed
NoBackEnd ==
    /\ backend = <<>>
    /\ built = <<>>
    /\ incoming = <<>>

InitClient ==
    /\ InitCalls
    /\ NoBackEnd
    /\ client \in [{"be1"} -> NewClients]
    /\ regReply = [c \in DOMAIN client |-> <<>>]
    /\ lastUpdate = [c \in DOMAIN client |-> <<>>]
    /\ dereg = [c \in DOMAIN client |-> FALSE]
    /\ res = IdleReservation
    /\ resReply = <<>>
    /\ callerStats = EmptyStats

ClientNext ==
    \/ Tick
    \/ \E c \in DOMAIN client : DoUpdate(c)
    \/ \E c \in DOMAIN client : DoRegister(c)
    \/ \E c \in DOMAIN client : DoSendState(c)
    \/ \E c \in DOMAIN client : DoDeregister(c)

SpecClient == InitClient /\ [][ClientNext]_vars

\* the RegisterRequests a record may be constructed from: those of the
\* clients, and one whose 32-bit udpPort does not fit 16 bits
BackEndRequests ==
    {RegisterRequest(Config(c)) : c \in Clients}
        \cup {[RegisterRequest(Config("be1")) EXCEPT !.udpPort = 83286]}

\* the SendStateRequests that may reach a record, with or without timestamp
StateMessages ==
    [ kind          : {"SendState"},
      token         : {"stA"},
      lbId          : {"lb7"},
      sessionId     : {"s1", "s2"},
      timestamp     : {<<>>, <<[seconds |-> 1, nanos |-> 500000000]>>,
                       <<[seconds |-> 2, nanos |-> 0]>>},
      fillPercent   : {75},
      controlSignal : {5},
      isReady       : BOOLEAN ]

DoBackEndUpdate ==
    \E state \in StateMessages :
        /\ backend # <<>>
        /\ backend' = <<BackEnd_update(backend[1], state, now)>>
        /\ incoming' = <<state>>
        /\ lastCall' = [op |-> "BackEnd::update", who |-> "", status |-> StatusOK]
        /\ lastReply' = <<>>
        /\ wire' = <<>>
        /\ cout' = <<>>
        /\ cerr' = <<>>
        /\ UNCHANGED <<now, built, clientVars, resVars, callerStats, args, ret, uri, resolves>>

DoSetIsActive ==
    \E active \in BOOLEAN :
        /\ backend # <<>>
        /\ backend' = <<setIsActive(backend[1], active)>>
        /\ lastCall' = [op |-> "BackEnd::setIsActive", who |-> "", status |-> StatusOK]
        /\ lastReply' = <<>>
        /\ wire' = <<>>
        /\ cout' = <<>>
        /\ cerr' = <<>>
        /\ UNCHANGED <<now, built, incoming, clientVars, resVars, callerStats, args, ret, uri, resolves>>

\* a record right after its construction from a RegisterRequest
InitBackEnd ==
    /\ InitCalls
    /\ client = [c \in {"be1"} |-> IdleClient]
    /\ regReply = [c \in DOMAIN client |-> <<>>]
    /\ lastUpdate = [c \in DOMAIN client |-> <<>>]
    /\ dereg = [c \in DOMAIN client |-> FALSE]
    /\ res = IdleReservation
    /\ resReply = <<>>
    /\ callerStats = EmptyStats
    /\ \E req \in BackEndRequests, ready0 \in BOOLEAN, active0 \in BOOLEAN :
          /\ backend = <<BackEnd(req, ready0, active0)>>
          /\ built = <<req>>
    /\ incoming = <<>>

BackEndNext ==
    \/ Tick
    \/ DoBackEndUpdate
    \/ DoSetIsActive

SpecBackEnd == InitBackEnd /\ [][BackEndNext]_vars

\* two instances in one process, each used by its own thread; a method
\* reads and writes only the members of its own instance, so the calls of
\* the two threads interleave as whole calls.  The clock is held still.
InitTwoClients ==
    /\ InitCalls
    /\ NoBackEnd
    /\ client \in [Clients -> NewClients]
    /\ regReply = [c \in DOMAIN client |-> <<>>]
    /\ lastUpdate = [c \in DOMAIN client |-> <<>>]
    /\ dereg = [c \in DOMAIN client |-> FALSE]
    /\ res = IdleReservation
    /\ resReply = <<>>
    /\ callerStats = EmptyStats

TwoClientsNext ==
    \/ \E c \in DOMAIN client : DoUpdate(c)
    \/ \E c \in DOMAIN client : DoRegister(c)
    \/ \E c \in DOMAIN client : DoSendState(c)
    \/ \E c \in DOMAIN client : DoDeregister(c)

SpecTwoClients == InitTwoClients /\ [][TwoClientsNext]_vars

InitReservation ==
    /\ InitCalls
    /\ NoBackEnd
    /\ client = [c \in {"be1"} |-> IdleClient]
    /\ regReply = [c \in DOMAIN client |-> <<>>]
    /\ lastUpdate = [c \in DOMAIN client |-> <<>>]
    /\ dereg = [c \in DOMAIN client |-> FALSE]
    /\ res \in NewReservations
    /\ resReply = <<>>
    /\ callerStats = EmptyStats

ReservationNext ==
    \/ Tick
    \/ DoReserve
    \/ DoFree
    \/ DoReserved

SpecReservation == InitReservation /\ [][ReservationNext]_vars

\* the reply that granted the reservation of HeldReservation
HeldReply ==
    [ token |-> "tok9", lbId |-> "lb8",
      syncIpAddress |-> "2001:db8:0:0:0:0:0:1",
      syncUdpPort |-> 18000,
      dataIpv4Address |-> "10.0.0.5",
      dataIpv6Address |-> "2001:db8:0:0:0:0:0:5" ]

\* an object that holds a reservation, as ReserveLoadBalancer leaves it
HeldReservation == ReserveLoadBalancer(IdleReservation, StatusOK, HeldReply).st

InitStatic ==
    /\ InitCalls
    /\ NoBackEnd
    /\ client = [c \in {"be1"} |-> IdleClient]
    /\ regReply = [c \in DOMAIN client |-> <<>>]
    /\ lastUpdate = [c \in DOMAIN client |-> <<>>]
    /\ dereg = [c \in DOMAIN client |-> FALSE]
    /\ res \in {IdleReservation, HeldReservation}
    /\ resReply = IF res = HeldReservation THEN <<HeldReply>> ELSE <<>>
    /\ callerStats = EmptyStats

StaticNext ==
    \/ DoReserveStatic
    \/ DoGetLbUri

\* the static methods keep nothing from one call to the next: one call
\* from each initial state reaches every outcome
OneStaticCall == lastCall.op = "none" /\ StaticNext

SpecStatic == InitStatic /\ [][OneStaticCall]_vars

\* one call of a one-shot URI method with a long reply or a long failure
\* message
BufferNext ==
    /\ lastCall.op = "none"
    /\ \/ DoReserveStaticLong
       \/ DoGetLbUriLong

SpecBuffer == InitStatic /\ [][BufferNext]_vars

\* a caller reserves through a new object, asks a one-shot URI for a
\* reservation, and reads the object's sync port
InitSyncPort == InitStatic /\ res = IdleReservation

SyncPortNext ==
    \/ lastCall.op = "none" /\ DoReserve
    \/ lastCall.op = "ReserveLoadBalancer" /\ DoReserveStatic
    \/ lastCall.op = "ReserveLoadBalancerStatic" /\ DoGetSyncPort

SpecSyncPort == InitSyncPort /\ [][SyncPortNext]_vars

\* polling, with the clock held still
StatusNext ==
    \/ DoReserve
    \/ DoFree
    \/ DoStatus

SpecStatus == InitReservation /\ [][StatusNext]_vars

\* polling through the object and through the static method
PollNext ==
    \/ DoStatus
    \/ DoStatusStatic
    \/ DoFree
    \/ DoFreeStatic

SpecPoll == InitStatic /\ [][PollNext]_vars

\* every method that makes an RPC
RpcCall ==
    \/ \E c \in DOMAIN client : DoRegister(c)
    \/ \E c \in DOMAIN client : DoSendState(c)
    \/ \E c \in DOMAIN client : DoDeregister(c)
    \/ DoReserve
    \/ DoFree
    \/ DoStatus
    \/ DoReserveStatic
    \/ DoFreeStatic
    \/ DoStatusStatic
    \/ DoGetLbUri

\* a map that an earlier poll has filled
PolledOnce ==
    StoreWorkers(EmptyStats,
                 <<[ name |-> "w1", fillPercent |-> 10, controlSignal |-> 3,
                     slotsAssigned |-> 128,
                     lastUpdated |-> [seconds |-> 1, nanos |-> 500000000] ]>>, 1)

\* objects in the states the methods leave them in, before one more call
InitOneCall ==
    /\ InitCalls
    /\ NoBackEnd
    /\ \E c0 \in NewClients, rr \in {<<>>} \cup {<<r>> : r \in RegisterReplies} :
          /\ client = [c \in {"be1"} |->
                           IF rr = <<>> THEN c0
                           ELSE Register(Config(c), c0, StatusOK, rr[1]).st]
          /\ regReply = [c \in {"be1"} |-> rr]
    /\ lastUpdate = [c \in DOMAIN client |-> <<>>]
    /\ dereg = [c \in DOMAIN client |-> FALSE]
    /\ res \in {IdleReservation, HeldReservation}
    /\ resReply = IF res = HeldReservation THEN <<HeldReply>> ELSE <<>>
    /\ callerStats \in {EmptyStats, PolledOnce}

\* one call of any of the methods
OneCallNext == lastCall.op = "none" /\ RpcCall

SpecOneCall == InitOneCall /\ [][OneCallNext]_vars

\* a reservation object, new or holding a reservation, used once at any
\* time before or after its expiry instant
InitExpiry ==
    /\ InitCalls
    /\ NoBackEnd
    /\ client = [c \in {"be1"} |-> IdleClient]
    /\ regReply = [c \in DOMAIN client |-> <<>>]
    /\ lastUpdate = [c \in DOMAIN client |-> <<>>]
    /\ dereg = [c \in DOMAIN client |-> FALSE]
    /\ res \in NewReservations \cup {HeldReservation}
    /\ resReply = IF res = HeldReservation THEN <<HeldReply>> ELSE <<>>
    /\ callerStats = EmptyStats

ExpiryNext ==
    /\ lastCall.op = "none"
    /\ \/ Tick
       \/ DoReserve
       \/ DoFree
       \/ DoStatus
       \/ DoReserved
       \/ DoReservationElapsed

SpecExpiry == InitExpiry /\ [][ExpiryNext]_vars

\* a reservation object whose methods are called only once its expiry
\* instant has passed
ElapsedNext ==
    \/ Tick
    \/ /\ reservationElapsed(res, now)
       /\ \/ DoReserve
          \/ DoFree
          \/ DoReserved
          \/ DoReservationElapsed

SpecElapsed == InitReservation /\ [][ElapsedNext]_vars

-----------------------------------------------------------------------------
(* The session of a backend client: Register, SendState, Deregister *)

\* C1: every SendState request and every Deregister request sent after a
\* successful Register carries exactly the sessionId and the session token of
\* the latest successful Register reply, together with the configured lbId.
C1_SessionCarried ==
    \A c \in DOMAIN client :
        (/\ lastCall.op \in {"SendState", "Deregister"}
         /\ lastCall.who = c
         /\ regReply[c] # <<>>)
        => /\ Len(wire) = 1
           /\ wire[1].kind = lastCall.op
           /\ wire[1].sessionId = regReply[c][1].sessionId
           /\ wire[1].token = regReply[c][1].token
           /\ wire[1].lbId = Config(c).lbId

C1_Witness ==
    /\ lastCall.op = "Deregister"
    /\ regReply["be1"] # <<>>
    /\ Len(wire) = 1
    /\ wire[1].sessionId = "s2"
    /\ wire[1].token = "stB"

\* C2: the stored (sessionId, sessionToken) pair is unset while no Register
\* has succeeded, and otherwise both values are those of the reply of the most
\* recent successful Register, never a mix of two replies.
C2_SessionPair ==
    \A c \in DOMAIN client :
        IF regReply[c] = <<>>
        THEN /\ client[c].sessionId = ""
             /\ client[c].sessionToken = ""
        ELSE /\ client[c].sessionId = regReply[c][1].sessionId
             /\ client[c].sessionToken = regReply[c][1].token

C2_Witness ==
    /\ lastCall.op = "Register"
    /\ lastCall.status.ok
    /\ client["be1"].sessionId = "s2"
    /\ client["be1"].sessionToken = "stA"

\* C3: a Register whose RPC fails returns a non-zero code and leaves the
\* sessionId and sessionToken of the client as they were before the call,
\* also when an earlier Register had succeeded.
C3_FailedRegister ==
    [][ \A c \in DOMAIN client :
            (/\ lastCall'.op = "Register"
             /\ lastCall'.who = c
             /\ ~lastCall'.status.ok)
            => /\ ret' # 0
               /\ client'[c].sessionId = client[c].sessionId
               /\ client'[c].sessionToken = client[c].sessionToken ]_vars

C3_Witness ==
    /\ lastCall.op = "Register"
    /\ ~lastCall.status.ok
    /\ ret = 1
    /\ regReply["be1"] # <<>>
    /\ client["be1"].sessionId = "s1"
    /\ client["be1"].sessionToken = "stB"

-----------------------------------------------------------------------------
(* The reservation held by an LbReservation object *)

\* C5: reserved() is false while no ReserveLoadBalancer has succeeded, true
\* right after a successful ReserveLoadBalancer whose untilSeconds lies in the
\* future, and false once the clock has passed untilSeconds; a call of
\* reserved() puts no request on the wire.
C5_ReservedLifecycle ==
    /\ resReply = <<>> => ~reserved(res, now)
    /\ (/\ lastCall.op = "ReserveLoadBalancer"
        /\ lastCall.status.ok
        /\ now < res.untilSeconds) => reserved(res, now)
    /\ now > res.untilSeconds => ~reserved(res, now)
    /\ lastCall.op = "reserved" =>
          /\ wire = <<>>
          /\ ret = 1 => resReply # <<>>

C5_Witness ==
    /\ lastCall.op = "reserved"
    /\ resReply # <<>>
    /\ res.isReserved
    /\ now > res.untilSeconds
    /\ ret = 0

\* C6: an instance ReserveLoadBalancer whose RPC fails returns a non-zero code
\* and leaves instanceToken, lbId, syncIpAddress, syncUdpPort, dataIpv4Address,
\* dataIpv6Address and isReserved as they were before the call, also when they
\* come from an earlier successful reservation.
C6_FailedReserve ==
    [][ (lastCall'.op = "ReserveLoadBalancer" /\ ~lastCall'.status.ok)
        => /\ ret' # 0
           /\ res'.instanceToken = res.instanceToken
           /\ res'.lbId = res.lbId
           /\ res'.syncIpAddress = res.syncIpAddress
           /\ res'.syncUdpPort = res.syncUdpPort
           /\ res'.dataIpv4Address = res.dataIpv4Address
           /\ res'.dataIpv6Address = res.dataIpv6Address
           /\ res'.isReserved = res.isReserved ]_vars

C6_Witness ==
    /\ lastCall.op = "ReserveLoadBalancer"
    /\ ~lastCall.status.ok
    /\ ret = 1
    /\ resReply # <<>>
    /\ res.isReserved
    /\ res.instanceToken = "tok9"
    /\ res.lbId = "lb8"
    /\ res.syncIpAddress = "2001:db8:0:0:0:0:0:1"

\* C7, as claimed: a successful instance ReserveLoadBalancer stores the
\* reply's token, lbId, sync port and both data addresses, stores a sync
\* address, sets isReserved and returns 0.
C7_StoresReply ==
    (lastCall.op = "ReserveLoadBalancer" /\ lastCall.status.ok)
        => /\ res.instanceToken = lastReply[1].token
           /\ res.lbId = lastReply[1].lbId
           /\ res.syncUdpPort = lastReply[1].syncUdpPort
           /\ res.dataIpv4Address = lastReply[1].dataIpv4Address
           /\ res.dataIpv6Address = lastReply[1].dataIpv6Address
           /\ res.syncIpAddress \in {lastReply[1].syncIpAddress, res.cpAddr}
           /\ res.isReserved
           /\ ret = 0

\* C7, amended: a successful instance ReserveLoadBalancer stores the reply's
\* token, lbId and both data addresses, stores the reply's sync port reduced
\* modulo 2^16 (the member has 16 bits, the reply field 32), stores a sync
\* address, sets isReserved and returns 0.
C7_StoresReply16 ==
    (lastCall.op = "ReserveLoadBalancer" /\ lastCall.status.ok)
        => /\ res.instanceToken = lastReply[1].token
           /\ res.lbId = lastReply[1].lbId
           /\ res.syncUdpPort = lastReply[1].syncUdpPort % UINT16
           /\ res.dataIpv4Address = lastReply[1].dataIpv4Address
           /\ res.dataIpv6Address = lastReply[1].dataIpv6Address
           /\ res.syncIpAddress \in {lastReply[1].syncIpAddress, res.cpAddr}
           /\ res.isReserved
           /\ ret = 0

C7_Witness ==
    /\ lastCall.op = "ReserveLoadBalancer"
    /\ lastCall.status.ok
    /\ lastReply[1].syncUdpPort = 83537
    /\ res.syncUdpPort = 18001
    /\ res.instanceToken = "tok123"
    /\ res.isReserved

\* C8: when a successful Reserve reply carries an empty sync address, the
\* sync address the instance ReserveLoadBalancer stores (getSyncAddr) is the
\* control-plane address the object was constructed with.
C8_EmptySyncAddress ==
    (/\ lastCall.op = "ReserveLoadBalancer"
     /\ lastCall.status.ok
     /\ lastReply[1].syncIpAddress = "")
        => res.syncIpAddress = res.cpAddr

C8_Witness ==
    /\ lastCall.op = "ReserveLoadBalancer"
    /\ lastCall.status.ok
    /\ lastReply[1].syncIpAddress = ""
    /\ res.syncIpAddress = "10.0.0.9"

-----------------------------------------------------------------------------
(* The URI strings of the static methods *)

HasPrefix(s, p) == Len(s) >= Len(p) /\ SubSeq(s, 1, Len(p)) = p

StaticUriCalls == {"ReserveLoadBalancerStatic", "GetLbUri"}

\* C9: a successful static ReserveLoadBalancer with ipv6 = false and a literal
\* control-plane address returns
\* ejfat://<token>@<cpAddr>:<cpPort>/lb/<lbId>?data=<dataipv4address>:19522&sync=<syncipaddress>:<syncudpport>
\* built from the reply's fields: a non-empty sync address of the reply
\* appears unchanged in the sync part.
C9_SyncAddressKept ==
    (/\ lastCall.op = "ReserveLoadBalancerStatic"
     /\ lastCall.status.ok
     /\ ~args.useIPv6
     /\ (is_ipv4(args.cpIP) \/ is_ipv6(args.cpIP))
     /\ lastReply[1].syncIpAddress # "")
        => uri = "ejfat://" \o lastReply[1].token \o "@" \o args.cpIP
                    \o ":" \o ToString(args.cpPort)
                    \o "/lb/" \o lastReply[1].lbId
                    \o "?data=" \o lastReply[1].dataIpv4Address \o ":19522"
                    \o "&sync=" \o lastReply[1].syncIpAddress
                    \o ":" \o ToString(lastReply[1].syncUdpPort)

-----------------------------------------------------------------------------
(* The Client Stats map filled by LoadBalancerStatus *)

StatusPolls == {"LoadBalancerStatus", "LoadBalancerStatusStatic"}

\* the map the most recent poll wrote into
PolledStats ==
    IF lastCall.op = "LoadBalancerStatus" THEN res.clientStats ELSE callerStats

\* C11: after a successful LoadBalancerStatus (instance or static), for every
\* worker named in the reply the map's entry under that name is exactly the
\* reply's record for it (the last one, should the reply name a worker
\* twice): fillPercent, controlSignal, slotsAssigned, lastUpdated, and
\* updateTime = lastUpdated in milliseconds; nothing of an earlier poll stays.
C11_EntriesReplaced ==
    (lastCall.op \in StatusPolls /\ lastCall.status.ok) =>
        \A j \in 1..Len(lastReply[1]) :
            LET w == lastReply[1][j] IN
            (\A k \in (j + 1)..Len(lastReply[1]) : lastReply[1][k].name # w.name)
            => /\ w.name \in DOMAIN PolledStats
               /\ PolledStats[w.name] =
                     [ fillPercent   |-> w.fillPercent,
                       controlSignal |-> w.controlSignal,
                       slotsAssigned |-> w.slotsAssigned,
                       lastUpdated   |-> w.lastUpdated,
                       updateTime    |-> w.lastUpdated.seconds * 1000
                                           + w.lastUpdated.nanos \div 1000000 ]

C11_Witness ==
    /\ lastCall.op = "LoadBalancerStatusStatic"
    /\ lastCall.status.ok
    /\ Len(lastReply[1]) = 1
    /\ lastReply[1][1].name = "w1"
    /\ DOMAIN callerStats = {"w1", "w2"}
    /\ callerStats["w1"].fillPercent = 80
    /\ callerStats["w1"].updateTime = 2250
    /\ callerStats["w2"].updateTime = 1500

\* C12: no step removes a key from the object's Client Stats map, and an
\* entry keeps its values in every step except a successful poll whose reply
\* names it.
C12_NeverShrinks ==
    [][ \A n \in DOMAIN res.clientStats :
            /\ n \in DOMAIN res'.clientStats
            /\ \/ /\ lastCall'.op = "LoadBalancerStatus"
                  /\ lastCall'.status.ok
                  /\ \E j \in 1..Len(lastReply'[1]) : lastReply'[1][j].name = n
               \/ res'.clientStats[n] = res.clientStats[n] ]_vars

C12_Witness ==
    /\ lastCall.op = "LoadBalancerStatus"
    /\ lastCall.status.ok
    /\ Len(lastReply[1]) = 1
    /\ lastReply[1][1].name = "w1"
    /\ DOMAIN res.clientStats = {"w1", "w2"}
    /\ res.clientStats["w2"].fillPercent = 10

\* C13: a successful poll that directly follows a successful poll and
\* receives the same reply leaves the Client Stats map as the first left it.
C13_PollIdempotent ==
    [][ (/\ lastCall.op = "LoadBalancerStatus"
         /\ lastCall.status.ok
         /\ lastCall'.op = "LoadBalancerStatus"
         /\ lastCall'.status.ok
         /\ lastReply' = lastReply)
        => res'.clientStats = res.clientStats ]_vars

C13_Witness ==
    /\ lastCall.op = "LoadBalancerStatus"
    /\ lastCall.status.ok
    /\ Len(lastReply[1]) = 2
    /\ lastReply[1][1].name = "w1"
    /\ lastReply[1][2].name = "w2"
    /\ DOMAIN res.clientStats = {"w1", "w2"}
    /\ res.clientStats["w1"].updateTime = 1500
    /\ res.clientStats["w2"].updateTime = 2250

-----------------------------------------------------------------------------
(* Literal control-plane addresses, FreeLoadBalancer, telemetry *)

\* C14: in the static ReserveLoadBalancer and GetLbUri, a control-plane
\* address that is an IPv4 or IPv6 literal (four octets, or eight groups of
\* hexadecimal digits) is the host of the URI unchanged, and resolve_host is
\* not called.
C14_LiteralHost ==
    (/\ lastCall.op \in StaticUriCalls
     /\ (is_ipv4(args.cpIP) \/ is_ipv6(args.cpIP)))
        => /\ resolves = 0
           /\ lastCall.status.ok =>
                 HasPrefix(uri,
                     "ejfat://"
                         \o (IF lastCall.op = "GetLbUri" THEN ""
                             ELSE lastReply[1].token \o "@")
                         \o args.cpIP \o ":" \o ToString(args.cpPort) \o "/lb/")

C14_Witness ==
    /\ lastCall.op = "GetLbUri"
    /\ lastCall.status.ok
    /\ args.cpIP = "2001:db8:0:0:0:0:0:9"
    /\ args.useIPv6
    /\ resolves = 0
    /\ HasPrefix(uri, "ejfat://2001:db8:0:0:0:0:0:9:18347/lb/lb7")

-----------------------------------------------------------------------------
(* One RPC per call, and its result code *)

RpcMethods ==
    { "Register", "SendState", "Deregister",
      "ReserveLoadBalancer", "FreeLoadBalancer", "LoadBalancerStatus",
      "ReserveLoadBalancerStatic", "FreeLoadBalancerStatic",
      "LoadBalancerStatusStatic", "GetLbUri" }

\* the RPC of the service that a method stands for
RpcKind(op) ==
    CASE op = "ReserveLoadBalancerStatic" -> "ReserveLoadBalancer"
      [] op = "FreeLoadBalancerStatic"    -> "FreeLoadBalancer"
      [] op = "LoadBalancerStatusStatic"  -> "LoadBalancerStatus"
      [] op = "GetLbUri"                  -> "GetLoadBalancer"
      [] OTHER                            -> op

\* C17: a call of Register, SendState, Deregister, ReserveLoadBalancer,
\* FreeLoadBalancer, LoadBalancerStatus (instance or static) or GetLbUri puts
\* exactly one request on the wire, of the RPC the method stands for, whether
\* the RPC succeeds or fails: a failed RPC is not sent again.
C17_OneRpc ==
    lastCall.op \in RpcMethods =>
        /\ Len(wire) = 1
        /\ wire[1].kind = RpcKind(lastCall.op)

C17_Witness ==
    /\ lastCall.op = "LoadBalancerStatusStatic"
    /\ ~lastCall.status.ok
    /\ Len(wire) = 1
    /\ wire[1].kind = "LoadBalancerStatus"
    /\ callerStats = PolledOnce

\* the methods that return an int
CodeMethods ==
    { "Register", "SendState", "Deregister",
      "ReserveLoadBalancer", "FreeLoadBalancer", "LoadBalancerStatus",
      "FreeLoadBalancerStatic", "LoadBalancerStatusStatic" }

\* C18: Register, SendState, Deregister, the instance ReserveLoadBalancer,
\* FreeLoadBalancer and LoadBalancerStatus, and the static FreeLoadBalancer
\* and LoadBalancerStatus return 0 exactly when the RPC status is ok, and a
\* non-zero code (1) when it is not.
C18_CodeIffOk ==
    lastCall.op \in CodeMethods =>
        /\ ret \in {0, 1}
        /\ ret = 0 <=> lastCall.status.ok

C18_Witness ==
    /\ lastCall.op = "FreeLoadBalancerStatic"
    /\ ~lastCall.status.ok
    /\ lastCall.status.code = 14
    /\ ret = 1

-----------------------------------------------------------------------------
(* Deregister *)

\* C19, as claimed: once a Deregister has succeeded, no SendState on the same
\* object transmits the session id and token of the Register before it,
\* unless a new Register has succeeded in between.
C19_CredentialsRetired ==
    \A c \in DOMAIN client :
        (/\ lastCall.op = "SendState"
         /\ lastCall.who = c
         /\ regReply[c] # <<>>
         /\ dereg[c])
        => ~(/\ Len(wire) = 1
             /\ wire[1].sessionId = regReply[c][1].sessionId
             /\ wire[1].token = regReply[c][1].token)

\* C19, amended: a successful Deregister leaves the session id and token in
\* the object, and a later SendState on the same object still transmits
\* them, the ones of the latest successful Register.
C19_CredentialsStillSent ==
    \A c \in DOMAIN client :
        (/\ lastCall.op = "SendState"
         /\ lastCall.who = c
         /\ regReply[c] # <<>>
         /\ dereg[c])
        => /\ Len(wire) = 1
           /\ wire[1].sessionId = regReply[c][1].sessionId
           /\ wire[1].token = regReply[c][1].token

C19_Witness ==
    /\ lastCall.op = "SendState"
    /\ lastCall.status.ok
    /\ regReply["be1"] # <<>>
    /\ dereg["be1"]
    /\ Len(wire) = 1
    /\ wire[1].sessionId = "s1"
    /\ wire[1].token = "stA"
    /\ ret = 0

\* C20: Deregister changes no field of the client, whether its RPC succeeds
\* or fails, and a Deregister that follows a Deregister sends the same
\* request (sessionToken, lbId, sessionId) again.
C20_DeregisterIdempotent ==
    [][ \A c \in DOMAIN client :
            (lastCall'.op = "Deregister" /\ lastCall'.who = c)
            => /\ client'[c] = client[c]
               /\ (lastCall.op = "Deregister" /\ lastCall.who = c)
                     => wire' = wire ]_vars

C20_Witness ==
    /\ lastCall.op = "Deregister"
    /\ ~lastCall.status.ok
    /\ dereg["be1"]
    /\ regReply["be1"] # <<>>
    /\ Len(wire) = 1
    /\ wire[1].sessionId = "s2"
    /\ client["be1"].sessionId = "s2"

-----------------------------------------------------------------------------
(* The session record of the control plane *)

\* C30: BackEnd::update never changes the record's weight, IP address, UDP
\* port, port range, name, lbId, admin token or liveness flag.  After any
\* sequence of updates the first seven are what the constructor took from
\* the RegisterRequest (the two ports as 16-bit values), and isActive
\* changes in a call of setIsActive only.
C30_UpdateFrame ==
    /\ [](backend # <<>> =>
            /\ backend[1].weight = built[1].weight
            /\ backend[1].ipAddress = built[1].ipAddress
            /\ backend[1].udpPort = built[1].udpPort % 65536
            /\ backend[1].portRange = built[1].portRange % 65536
            /\ backend[1].name = built[1].name
            /\ backend[1].lbId = built[1].lbId
            /\ backend[1].adminToken = built[1].token)
    /\ [][(backend # <<>> /\ backend'[1].isActive # backend[1].isActive)
             => lastCall'.op = "BackEnd::setIsActive"]_vars

C30_Witness ==
    /\ lastCall.op = "BackEnd::update"
    /\ incoming # <<>>
    /\ incoming[1].sessionId = "s2"
    /\ backend[1].sessionId = "s2"
    /\ backend[1].time = 1500
    /\ backend[1].localTime = 2000
    /\ ~backend[1].isActive
    /\ built[1].udpPort = 83286
    /\ backend[1].udpPort = 17750
    /\ backend[1].weight = 1
    /\ backend[1].ipAddress = "10.1.0.1"

\* C31: the session id a record holds is stable: once the record holds one,
\* no BackEnd::update changes it, whatever sessionid the incoming
\* SendStateRequest carries.
C31_SessionStable ==
    [][(/\ backend # <<>>
        /\ backend[1].sessionId # ""
        /\ now' = now
        /\ lastCall'.op = "BackEnd::update")
           => backend'[1].sessionId = backend[1].sessionId]_vars

\* C32: an update whose request carries a timestamp leaves in the record
\* that timestamp, in milliseconds, as the reported time and the local clock
\* of the update as the receipt time, two separate members; an update whose
\* request carries no timestamp leaves the reported time as it was and still
\* sets the receipt time to the local clock.
C32_TimestampPair ==
    [][(/\ backend # <<>>
        /\ now' = now
        /\ lastCall'.op = "BackEnd::update")
           => /\ backend'[1].localTime = now * 1000
              /\ Len(incoming'[1].timestamp) = 1 =>
                    /\ backend'[1].time =
                          incoming'[1].timestamp[1].seconds * 1000
                              + incoming'[1].timestamp[1].nanos \div 1000000
                    /\ backend'[1].timestamp = incoming'[1].timestamp[1]
              /\ Len(incoming'[1].timestamp) = 0 =>
                    /\ backend'[1].time = backend[1].time
                    /\ backend'[1].timestamp = backend[1].timestamp]_vars

\* a report without timestamp has arrived after one with a timestamp: the
\* reported time is the earlier report's, the receipt time is the clock's
C32_Witness ==
    /\ lastCall.op = "BackEnd::update"
    /\ incoming # <<>>
    /\ incoming[1].timestamp = <<>>
    /\ backend[1].time = 1500
    /\ backend[1].timestamp = [seconds |-> 1, nanos |-> 500000000]
    /\ now = 3
    /\ backend[1].localTime = 3000

\* C33: after BackEnd::update(state) the record's readiness flag, as
\* getIsReady() returns it, is the isReady value of that SendStateRequest.
C33_ReadinessStored ==
    (backend # <<>> /\ lastCall.op = "BackEnd::update")
        => backend[1].isReady = incoming[1].isReady

-----------------------------------------------------------------------------
(* Independent client instances *)

\* the session an instance holds according to its own Register replies
OwnSession(c) ==
    IF regReply[c] = <<>> THEN EmptyRegisterReply ELSE regReply[c][1]

\* C27: two LbControlPlaneClient instances used in any interleaving do not
\* interfere.  A call on one instance leaves the members of the other as
\* they were; the session id and token an instance holds are those of its
\* own latest successful Register; and every request an instance sends is
\* made of its own constructor arguments, its own session and the values of
\* its own latest update().
C27_NoInterference ==
    /\ [](\A c \in DOMAIN client :
            /\ client[c].sessionId = OwnSession(c).sessionId
            /\ client[c].sessionToken = OwnSession(c).token
            /\ lastUpdate[c] # <<>> =>
                  /\ client[c].fillPercent = lastUpdate[c][1].fillPercent
                  /\ client[c].pidError = lastUpdate[c][1].pidError
                  /\ client[c].isReady = lastUpdate[c][1].isReady
            /\ (lastCall.who = c /\ lastCall.op = "Register") =>
                  wire = << [ kind |-> "Register", token |-> Config(c).token,
                              name |-> Config(c).name, lbId |-> Config(c).lbId,
                              weight |-> Config(c).weight,
                              ipAddress |-> Config(c).beAddr,
                              udpPort |-> Config(c).bePort,
                              portRange |-> Config(c).beRange ] >>
            /\ (lastCall.who = c /\ lastCall.op = "Deregister") =>
                  wire = << [ kind |-> "Deregister",
                              token |-> OwnSession(c).token,
                              lbId |-> Config(c).lbId,
                              sessionId |-> OwnSession(c).sessionId ] >>
            /\ (lastCall.who = c /\ lastCall.op = "SendState") =>
                  /\ Len(wire) = 1
                  /\ wire[1].token = OwnSession(c).token
                  /\ wire[1].sessionId = OwnSession(c).sessionId
                  /\ wire[1].lbId = Config(c).lbId
                  /\ lastUpdate[c] # <<>> =>
                        /\ wire[1].fillPercent = lastUpdate[c][1].fillPercent
                        /\ wire[1].controlSignal = lastUpdate[c][1].pidError
                        /\ wire[1].isReady = lastUpdate[c][1].isReady)
    /\ [][\A c \in DOMAIN client :
            lastCall'.who # c => client'[c] = client[c]]_vars

\* both instances hold a session, each its own, and be2 has just reported
\* its own state under its own session
C27_Witness ==
    /\ DOMAIN client = {"be1", "be2"}
    /\ regReply["be1"] = <<[token |-> "stA", sessionId |-> "s1"]>>
    /\ regReply["be2"] = <<[token |-> "stB", sessionId |-> "s2"]>>
    /\ lastUpdate["be1"] # <<>>
    /\ lastUpdate["be2"] # <<>>
    /\ lastUpdate["be1"][1].fillPercent # lastUpdate["be2"][1].fillPercent
    /\ lastCall.op = "SendState"
    /\ lastCall.who = "be2"
    /\ wire[1].sessionId = "s2"
    /\ wire[1].token = "stB"
    /\ wire[1].lbId = "lb8"
    /\ client["be1"].sessionId = "s1"

-----------------------------------------------------------------------------
(* Expiry of a reservation *)

\* the operations of a reservation object that talk to the control plane
ReservationOps == {"ReserveLoadBalancer", "FreeLoadBalancer", "LoadBalancerStatus"}

\* C21, as claimed: ReserveLoadBalancer, FreeLoadBalancer or
\* LoadBalancerStatus called on an object whose expiry instant has passed is
\* rejected locally: it returns an error and sends no RPC.
C21_RejectedLocally ==
    (lastCall.op \in ReservationOps /\ reservationElapsed(res, now))
        => wire = <<>> /\ ret # 0

\* C21, amended: the three operations do not consult the elapsed-time
\* predicate.  Called after the expiry instant, each still sends its one RPC
\* and returns 0 exactly when that RPC succeeds; only the accessor
\* reserved() tells locally, without an RPC, that the reservation elapsed.
C21_SentWhenElapsed ==
    /\ (lastCall.op \in ReservationOps /\ reservationElapsed(res, now))
          => /\ Len(wire) = 1
             /\ wire[1].kind = lastCall.op
             /\ (ret = 0) <=> lastCall.status.ok
    /\ (lastCall.op = "reserved" /\ reservationElapsed(res, now))
          => wire = <<>> /\ ret = 0

C21_Witness ==
    /\ lastCall.op = "LoadBalancerStatus"
    /\ lastCall.status.ok
    /\ res.isReserved
    /\ reservationElapsed(res, now)
    /\ Len(wire) = 1
    /\ wire[1].kind = "LoadBalancerStatus"
    /\ ret = 0

\* C25: reservationElapsed() returns true exactly when the wall clock, in
\* whole seconds, is strictly greater than the stored untilSeconds, whatever
\* the other members hold; the call changes no member and sends no RPC.
C25_ElapsedIffPast ==
    /\ [](lastCall.op = "reservationElapsed" =>
            /\ ret \in {0, 1}
            /\ (ret = 1) <=> (now > res.untilSeconds)
            /\ wire = <<>>)
    /\ [][lastCall'.op = "reservationElapsed" =>
            res' = res /\ resReply' = resReply /\ now' = now]_vars

C25_Witness ==
    /\ lastCall.op = "reservationElapsed"
    /\ res.isReserved
    /\ now = res.untilSeconds
    /\ ret = 0
    /\ wire = <<>>

\* C26, as claimed: in every state where reserved() is true, a
\* ReserveLoadBalancer has succeeded on the object and the clock is strictly
\* before the expiry instant, now < untilSeconds; reserved() is not true in
\* the second now = untilSeconds.
C26_StrictlyBefore ==
    reserved(res, now) => resReply # <<>> /\ now < res.untilSeconds

\* C26, amended: in every state where reserved() is true, a
\* ReserveLoadBalancer has succeeded on the object and the clock has not
\* passed the expiry instant, now <= untilSeconds; in the second
\* now = untilSeconds reserved() is still true.
C26_NotPast ==
    /\ reserved(res, now) => resReply # <<>> /\ now <= res.untilSeconds
    /\ (resReply # <<>> /\ now = res.untilSeconds) => reserved(res, now)

C26_Witness ==
    /\ lastCall.op = "reserved"
    /\ resReply # <<>>
    /\ now = res.untilSeconds
    /\ reserved(res, now)
    /\ ret = 1

-----------------------------------------------------------------------------
(* The one-shot URI methods: output streams, requests and URI fields *)

\* C22: whenever the RPC of the static ReserveLoadBalancer or of GetLbUri
\* succeeds, the call writes nothing to std::cout and nothing to std::cerr,
\* whether the control-plane address is a literal or a host name, and also
\* when the resolution of the host name fails.
C22_SilentOnSuccess ==
    (lastCall.op \in StaticUriCalls /\ lastCall.status.ok)
        => cout = <<>> /\ cerr = <<>>

\* s has sub as a substring
Contains(s, sub) ==
    \E i \in 1..(Len(s) - Len(sub) + 1) : SubSeq(s, i, i + Len(sub) - 1) = sub

\* the hosts a URI may name: cpIP itself or an address the resolver gave
UriHosts == {args.cpIP} \cup {args.gai.addrs[j] : j \in 1..Len(args.gai.addrs)}

\* C23: GetLbUri is read-only.  It sends one GetLoadBalancer request and no
\* ReserveLoadBalancer request, leaves every reservation object as it was,
\* and on success returns
\* ejfat://<host>:<port>/lb/<lbId>?data=<addr>:19522&sync=<addr>:<syncPort>,
\* a string with no "@" part, in which neither the admin token nor the
\* token of the reply occurs.
C23_GetLbUriReadOnly ==
    /\ [](lastCall.op = "GetLbUri" =>
            /\ Len(wire) = 1
            /\ wire[1].kind = "GetLoadBalancer"
            /\ lastCall.status.ok =>
                  /\ \E host \in UriHosts :
                     \E sync \in {lastReply[1].syncIpAddress, host} :
                        uri = "ejfat://" \o host \o ":" \o ToString(args.cpPort)
                                \o "/lb/" \o lastReply[1].lbId
                                \o "?data="
                                \o (IF args.useIPv6
                                    THEN lastReply[1].dataIpv6Address
                                    ELSE lastReply[1].dataIpv4Address)
                                \o ":19522"
                                \o "&sync=" \o sync
                                \o ":" \o ToString(lastReply[1].syncUdpPort)
                  /\ ~Contains(uri, "@")
                  /\ ~Contains(uri, wire[1].token)
                  /\ ~Contains(uri, lastReply[1].token))
    /\ [][lastCall'.op = "GetLbUri" => res' = res /\ resReply' = resReply]_vars

C23_Witness ==
    /\ lastCall.op = "GetLbUri"
    /\ lastCall.status.ok
    /\ res = HeldReservation
    /\ wire = <<GetLoadBalancerRequest("admintok", "lb7")>>
    /\ lastReply[1].token = "tok123"
    /\ uri = "ejfat://10.0.0.9:18347/lb/lb7?data=10.0.0.5:19522&sync=2001:db8:0:0:0:0:0:1:18000"

\* C24: in every URI the static ReserveLoadBalancer or GetLbUri produces, the
\* data part is <address>:19522, where 19522 is a constant that no field of
\* the reply sets, and the address is the reply's dataIpv6Address when IPv6
\* was requested and its dataIpv4Address otherwise.
C24_DataEndpoint ==
    (lastCall.op \in StaticUriCalls /\ lastCall.status.ok)
        => Contains(uri,
               "?data="
                   \o (IF args.useIPv6 THEN lastReply[1].dataIpv6Address
                                       ELSE lastReply[1].dataIpv4Address)
                   \o ":19522&sync=")

C24_Witness ==
    /\ lastCall.op = "ReserveLoadBalancerStatic"
    /\ lastCall.status.ok
    /\ args.useIPv6
    /\ lastReply[1].syncUdpPort = 83537
    /\ Contains(uri, "/lb/lb7?data=2001:db8:0:0:0:0:0:5:19522&sync=")

-----------------------------------------------------------------------------
(* Host names: resolution and the choice of the URI host *)

\* the entries of the resolver's answer that are literals of each family
AnswersV4 == {a \in {args.gai.addrs[j] : j \in 1..Len(args.gai.addrs)} : is_ipv4(a)}
AnswersV6 == {a \in {args.gai.addrs[j] : j \in 1..Len(args.gai.addrs)} : is_ipv6(a)}

\* the text of a successful URI before the host: the scheme, and the token
\* part in a reservation URI
UriHead ==
    "ejfat://" \o (IF lastCall.op = "GetLbUri" THEN ""
                   ELSE lastReply[1].token \o "@")

\* C28: when the control-plane address is a host name, the host of the URI
\* is an IPv6 literal of the resolver's answer if IPv6 was requested and the
\* answer has one; otherwise an IPv4 literal of the answer if it has one;
\* otherwise the host name itself, unchanged.
C28_HostChoice ==
    (/\ lastCall.op \in StaticUriCalls
     /\ lastCall.status.ok
     /\ ~(is_ipv4(args.cpIP) \/ is_ipv6(args.cpIP)))
        => \E host \in (IF args.useIPv6 /\ AnswersV6 # {} THEN AnswersV6
                        ELSE IF AnswersV4 # {} THEN AnswersV4
                        ELSE {args.cpIP}) :
              HasPrefix(uri, UriHead \o host \o ":" \o ToString(args.cpPort) \o "/lb/")

\* IPv6 was requested, the answer holds an IPv6 address that is no literal
\* of eight groups and an IPv4 address: the URI names the IPv4 address
C28_Witness ==
    /\ lastCall.op = "GetLbUri"
    /\ lastCall.status.ok
    /\ args.cpIP = "lb.example.org"
    /\ args.useIPv6
    /\ args.gai.addrs = <<"2001:db8::7", "192.168.1.7">>
    /\ HasPrefix(uri, "ejfat://192.168.1.7:18347/lb/lb7")

\* the first entry of the answer that is in the set ok, or "" if none is
FirstOf(addrs, ok) ==
    IF \E j \in 1..Len(addrs) : addrs[j] \in ok
    THEN addrs[CHOOSE j \in 1..Len(addrs) :
                  /\ addrs[j] \in ok
                  /\ \A k \in 1..(j - 1) : addrs[k] \notin ok]
    ELSE ""

\* C29: for every list of addresses the resolver returns, resolve_host gives
\* as ipv4 the first entry of the list that is an IPv4 literal and as ipv6
\* the first entry that is an IPv6 literal; a later entry of the same family
\* does not replace an earlier one.
C29_FirstLiteral ==
    (/\ lastCall.op \in StaticUriCalls
     /\ resolves = 1
     /\ args.gai.status = 0)
        => /\ resolve_host(args.cpIP, args.gai).ipv4 = FirstOf(args.gai.addrs, AnswersV4)
           /\ resolve_host(args.cpIP, args.gai).ipv6 = FirstOf(args.gai.addrs, AnswersV6)

-----------------------------------------------------------------------------
(* Readiness by default; a failed status poll *)

\* C34: a client reports ready by default.  While update() has not been
\* called, and after an update() whose readiness argument was true, which is
\* what update(fill, pidErr) passes, every SendState request carries
\* isReady = true.
C34_ReadyByDefault ==
    \A c \in DOMAIN client :
        (/\ lastCall.op = "SendState"
         /\ lastCall.who = c
         /\ (lastUpdate[c] = <<>> \/ lastUpdate[c][1].isReady))
        => /\ Len(wire) = 1
           /\ wire[1].isReady = TRUE

C34_Witness ==
    /\ lastCall.op = "SendState"
    /\ lastCall.who = "be1"
    /\ lastUpdate["be1"] = <<>>
    /\ regReply["be1"] # <<>>
    /\ Len(wire) = 1
    /\ wire[1].isReady = TRUE
    /\ wire[1].sessionId = "s1"

\* C35: a LoadBalancerStatus whose RPC fails returns a non-zero code and
\* leaves the map of client statistics, the member of the object or the map
\* the caller passed to the static method, exactly as it was.
C35_FailedPoll ==
    /\ [][(lastCall'.op = "LoadBalancerStatus" /\ ~lastCall'.status.ok)
             => ret' # 0 /\ res'.clientStats = res.clientStats]_vars
    /\ [][(lastCall'.op = "LoadBalancerStatusStatic" /\ ~lastCall'.status.ok)
             => ret' # 0 /\ callerStats' = callerStats]_vars

C35_Witness ==
    /\ lastCall.op = "LoadBalancerStatusStatic"
    /\ ~lastCall.status.ok
    /\ ret = 1
    /\ DOMAIN callerStats = {"w1", "w2"}
    /\ callerStats["w1"].fillPercent = 10
    /\ callerStats["w2"].fillPercent = 80
    /\ DOMAIN res.clientStats = {"w1"}

-----------------------------------------------------------------------------
(* The reserved flag and the expiry instant over the life of an object *)

C37_ElapsedForever ==
    /\ [][res'.untilSeconds = res.untilSeconds]_vars
    /\ [][reservationElapsed(res, now)
             => reservationElapsed(res', now') /\ ~reserved(res', now')]_vars
    /\ [](lastCall.op = "reserved" => ret = 0)
    /\ [](lastCall.op = "reservationElapsed" => ret = 1)

\* a reserve made after the expiry instant has succeeded, and reserved(),
\* read after it, was false
C37_Witness ==
    /\ lastCall.op = "reserved"
    /\ ret = 0
    /\ resReply # <<>>
    /\ res.isReserved
    /\ res.instanceToken = "tok123"
    /\ reservationElapsed(res, now)

-----------------------------------------------------------------------------
(* The sync endpoint: address substitution, buffer, port width *)

HasSuffix(s, p) == Len(s) >= Len(p) /\ SubSeq(s, Len(s) - Len(p) + 1, Len(s)) = p

\* C39: in the static ReserveLoadBalancer and in GetLbUri the formatted text,
\* the URI or "error = <message>", with its terminating byte fits the 256
\* bytes of url, whatever the lengths of the token, the load balancer id, the
\* addresses and the error message; the call returns it and the process is
\* not ended for overrunning the buffer.
C39_FitsBuffer ==
    lastCall.op \in StaticUriCalls =>
        /\ Len(uri) + 1 <= UrlSize
        /\ \A i \in 1..Len(cerr) : cerr[i] # StackSmash

\* the object was granted a reservation, the static ReserveLoadBalancer was
\* answered with the same reply and returned a URI, and the caller has read
\* getSyncPort()
SamePortReply ==
    /\ lastCall.op = "getSyncPort"
    /\ resReply # <<>>
    /\ lastReply = resReply
    /\ HasPrefix(uri, UriHead)

=============================================================================
